---- MODULE Spec2Model ----
(***************************************************************************)
(* Model of the protocol-A / protocol-B adapter.                           *)
(*                                                                         *)
(* Part I  : the batch engine (src/src/routes/batches.ts).                 *)
(* Part II : the stream reconstructor                                      *)
(*           (ResponseConverter.convertOpenAIStreamToClaude).              *)
(*                                                                         *)
(* JavaScript runs every handler to completion between two suspension      *)
(* points, so one action is one synchronous run: an HTTP handler from its  *)
(* first statement to its response, or a worker from the resumption of an  *)
(* await to the next await (or to its end).                                *)
(***************************************************************************)
EXTENDS Integers, Sequences, FiniteSets, TLC

\* ------------------------------------------------------------------------
\* Bounds
\* ------------------------------------------------------------------------
MaxRequests == 2
MaxJobs == 1
MaxChunks == 3

\* ------------------------------------------------------------------------
\* Part I : batch engine, values
\* ------------------------------------------------------------------------
\* null, and what new Date().toISOString() returns: the model keeps of a
\* timestamp only whether it is set.
NULL == 0
Timestamp == 1

JobIds == 1..MaxJobs

\* What one entry of the submitted `requests` array is, as far as the worker
\* can tell entries apart:
\*   "mapped"   : body.model has a model mapping, createMessage is called
\*   "unmapped" : no model mapping is found: getModelConfig(body.model) is
\*                undefined, or the entry has no body and request.body.model
\*                throws; either way the inner try throws before the call
\*   "null"     : the entry itself is null (request.custom_id throws too)
EntryKinds == {"mapped", "unmapped", "null"}

\* A mapped entry may be a request of the web search flow, which createMessage
\* serves through the search provider and the cache of the process:
\*   "search"      : body.tools is the web search tool (the initial phase)
\*   "tool_result" : the last user turn brings back a web search tool result
SearchEntryKinds == {"search", "tool_result"}

\* The entries of the given kinds, entry i with custom_id i.
EntryList(kinds) == [i \in 1..Len(kinds) |-> [custom_id |-> i, kind |-> kinds[i]]]

\* The request lists of length n; entry i carries custom_id i.
RequestListsOfLen(n) ==
    { [i \in 1..n |-> [custom_id |-> i, kind |-> f[i]]] : f \in [1..n -> EntryKinds] }

RequestLists == UNION { RequestListsOfLen(n) : n \in 0..MaxRequests }

\* The request bodies of POST /: `requests` is an array, or it is absent or
\* not an array.
Bodies ==
    { [is_array |-> TRUE, requests |-> r] : r \in RequestLists }
        \cup { [is_array |-> FALSE, requests |-> << >>] }

NoResponse == [op |-> "none"]

VARIABLES
    batches,     \* the `batches` map: job id -> BatchJob, with the worker's position
    response     \* the HTTP response of the handler that has just run

batchVars == <<batches, response>>

\* The state of one run of convertOpenAIStreamToClaude.
VARIABLES
    pc,                    \* where the generator stands
    allChunks,             \* the chunks drained from the backend stream
    events,                \* the events yielded so far
    hasStarted,
    hasFinished,
    totalInputTokens,
    totalOutputTokens,
    activeContentBlocks,
    toolCallsBuffer,       \* the accumulated calls, in order of insertion
    chunkIdx,              \* the chunk the second loop stands at
    nextBlockIndex,
    toolIdx,               \* the call the last loop stands at
    sliceText,             \* the text being sliced (explanatoryText or inputJson)
    sliceAt                \* i of the slicing loop

streamVars == <<pc, allChunks, events, hasStarted, hasFinished, totalInputTokens,
                totalOutputTokens, activeContentBlocks, toolCallsBuffer, chunkIdx,
                nextBlockIndex, toolIdx, sliceText, sliceAt>>

\* The state of the messages endpoint: the configuration loaded at startup and
\* one run of POST /v1/messages with the adapter calls it makes.
VARIABLES
    routerConfig,          \* ModelManager.routerConfig
    at,                    \* where the handler stands
    receivedRequest,       \* req.body as it was received
    claudeRequest,         \* req.body, as the handler has it (model and max_tokens are reassigned)
    backendCalls,          \* the calls made to the backend and to the search provider
    backendAnswer,         \* what the backend answered to the one-shot call
    claudeResponse,        \* the message createMessage returned
    written,               \* what the handler has given to res: status, body, events
    replayIndex,           \* index of convertClaudeToStream: the content block it stands at
    sliceI                 \* i of its slicing loop

msgVars == <<routerConfig, at, receivedRequest, claudeRequest, backendCalls, backendAnswer,
             claudeResponse,
             written,
             replayIndex, sliceI>>

VARIABLES
    cache,                 \* MemoryStore.cache: the entries, in insertion order
    cleanupTimer,          \* MemoryStore.cleanupTimer is scheduled
    now,                   \* Date.now(), in milliseconds
    returned,              \* what the last call to the store returned
    lastWrite              \* per key, what the last set wrote (history)

storeVars == <<cache, cleanupTimer, now, returned, lastWrite>>

VARIABLES
    parseCall              \* one call of parseSearchResult: its input and what it returned

scanVars == <<parseCall>>

vars == <<batches, response, pc, allChunks, events, hasStarted, hasFinished,
          totalInputTokens, totalOutputTokens, activeContentBlocks, toolCallsBuffer,
          chunkIdx, nextBlockIndex, toolIdx, sliceText, sliceAt,
          routerConfig, at, receivedRequest, claudeRequest, backendCalls, backendAnswer,
          claudeResponse,
          written, replayIndex, sliceI,
          cache, cleanupTimer, now, returned, lastWrite, parseCall>>

\* What the batch engine, the stream reconstructor and the messages endpoint
\* each leave alone.
notBatch == <<streamVars, msgVars, storeVars, scanVars>>
notStream == <<batchVars, msgVars, storeVars, scanVars>>
notMessages == <<batchVars, streamVars, storeVars, scanVars>>
notStore == <<batchVars, streamVars, msgVars, scanVars>>
notScan == <<batchVars, streamVars, msgVars, storeVars>>
\* What the handler leaves alone when it takes up a request (it reads the
\* cache) and when the search returns (it writes the cache).
notPost == <<batchVars, streamVars, scanVars, cleanupTimer, now, returned, lastWrite>>
notSearch == <<batchVars, streamVars, scanVars, now, returned>>
\* What the handler leaves alone while it streams the backend's answer.
notStreaming == <<batchVars, storeVars, scanVars>>
\* What the submission of a job leaves alone (the worker's first call reads
\* the cache) and what a step of the worker does (it writes the cache).
notCreate == <<streamVars, msgVars, scanVars, cleanupTimer, now, returned, lastWrite>>
notWorker == <<streamVars, msgVars, scanVars, now, returned>>

\* ------------------------------------------------------------------------
\* Part I : batch engine, operations
\* ------------------------------------------------------------------------

\* The BatchJob built by POST / (results is not set yet: results_set = FALSE).
\* pos is the worker's loop position, pending the set of entries whose
\* createMessage call is outstanding, worker the worker's state.
NewBatch(id, requests) ==
    [ id                  |-> id,
      processing_status   |-> "validating",
      processing          |-> Len(requests),
      succeeded           |-> 0,
      errored             |-> 0,
      canceled            |-> 0,
      ended_at            |-> NULL,
      cancel_initiated_at |-> NULL,
      requests            |-> requests,
      results_set         |-> FALSE,
      results             |-> << >>,
      pos                 |-> 0,
      pending             |-> {},
      worker              |-> "not_started" ]

\* The metadata object every handler but the results handler answers with.
Metadata(b) ==
    [ id                  |-> b.id,
      processing_status   |-> b.processing_status,
      processing          |-> b.processing,
      succeeded           |-> b.succeeded,
      errored             |-> b.errored,
      canceled            |-> b.canceled,
      ended_at            |-> b.ended_at,
      cancel_initiated_at |-> b.cancel_initiated_at ]

\* StartWorker as it would be if the status were left for a later step of the
\* worker, after its first suspension.
StartWorker_StatusLater(b) ==
    [b EXCEPT !.results_set = TRUE,
              !.results = << >>,
              !.worker = "running"]

\* processBatchAsync, first two statements.
StartWorker(b) ==
    [b EXCEPT !.processing_status = "in_progress",
              !.results_set = TRUE,
              !.results = << >>,
              !.worker = "running"]

\* processBatchAsync, after the loop and in the outer catch: the same two
\* assignments.
EndBatch(b) ==
    [b EXCEPT !.processing_status = "ended",
              !.ended_at = Timestamp,
              !.pending = {},
              !.worker = "finished"]

PushResult(b, i, type) ==
    [b EXCEPT !.results = Append(@, [custom_id |-> b.requests[i].custom_id, type |-> type])]

\* The cancel branch of the loop body up to the push.
CountCanceled(b) ==
    [b EXCEPT !.canceled = @ + 1, !.processing = @ - 1]

CountSucceeded(b) ==
    [b EXCEPT !.succeeded = @ + 1, !.processing = @ - 1]

\* CountErrored as it would be had the decrement of processing been forgotten.
CountErrored_NoDecrement(b) ==
    [b EXCEPT !.errored = @ + 1]

CountErrored(b) ==
    [b EXCEPT !.errored = @ + 1, !.processing = @ - 1]

\* The inner catch block: push, then the two counters.
RecordErrored(b, i) == CountErrored(PushResult(b, i, "errored"))

\* The success path after the await: push, then the two counters.
RecordSucceeded(b, i) == CountSucceeded(PushResult(b, i, "succeeded"))

\* RunWorker as it would be with a fan-out: the createMessage call is started
\* and the loop goes on to the next entry without awaiting it.
RECURSIVE RunWorker_FanOut(_, _)
RunWorker_FanOut(b, i) ==
    IF i > Len(b.requests)
    THEN [b EXCEPT !.pos = i]
    ELSE LET kind == b.requests[i].kind IN
         IF b.cancel_initiated_at # NULL
         THEN IF kind = "null"
              THEN EndBatch([CountCanceled(b) EXCEPT !.pos = i])
              ELSE RunWorker_FanOut(PushResult(CountCanceled(b), i, "canceled"), i + 1)
         ELSE CASE kind = "null" -> EndBatch([b EXCEPT !.pos = i])
                [] kind = "unmapped" -> RunWorker_FanOut(RecordErrored(b, i), i + 1)
                [] OTHER ->
                   RunWorker_FanOut([b EXCEPT !.pos = i, !.pending = @ \cup {i},
                                              !.worker = "awaiting"], i + 1)

\* RunWorker as it would be without the outer try/catch: an exception that
\* escapes the loop body ends the worker and leaves the job as it is.
RECURSIVE RunWorker_NoOuterCatch(_, _)
RunWorker_NoOuterCatch(b, i) ==
    IF i > Len(b.requests)
    THEN EndBatch([b EXCEPT !.pos = i])
    ELSE LET kind == b.requests[i].kind IN
         IF b.cancel_initiated_at # NULL
         THEN IF kind = "null"
              THEN [CountCanceled(b) EXCEPT !.pos = i, !.worker = "finished"]
              ELSE RunWorker_NoOuterCatch(PushResult(CountCanceled(b), i, "canceled"), i + 1)
         ELSE CASE kind = "null" -> [b EXCEPT !.pos = i, !.worker = "finished"]
                [] kind = "unmapped" -> RunWorker_NoOuterCatch(RecordErrored(b, i), i + 1)
                [] OTHER ->
                   [b EXCEPT !.pos = i, !.pending = @ \cup {i}, !.worker = "awaiting"]

\* The synchronous run of the worker's loop from entry i on, up to the next
\* await or to the end of the function.
RECURSIVE RunWorker(_, _)
RunWorker(b, i) ==
    IF i > Len(b.requests)
    THEN EndBatch([b EXCEPT !.pos = i])
    ELSE LET kind == b.requests[i].kind IN
         IF b.cancel_initiated_at # NULL
         THEN \* counters first, then the push that reads request.custom_id
              IF kind = "null"
              THEN EndBatch([CountCanceled(b) EXCEPT !.pos = i])
              ELSE RunWorker(PushResult(CountCanceled(b), i, "canceled"), i + 1)
         ELSE CASE kind = "null" ->
                   \* request.body throws, and so does request.custom_id in
                   \* the inner catch: the outer catch ends the job
                   EndBatch([b EXCEPT !.pos = i])
                [] kind = "unmapped" ->
                   RunWorker(RecordErrored(b, i), i + 1)
                [] OTHER ->
                   \* await claudeAdapter.createMessage(...)
                   [b EXCEPT !.pos = i, !.pending = @ \cup {i}, !.worker = "awaiting"]

\* processBatchAsync from its call to its first suspension.
ProcessBatchAsync(b) == RunWorker(StartWorker(b), 1)

\* The continuation of the await on entry i: the call has returned (ok) or
\* thrown, the outcome is recorded and the loop goes on.
ResumeWorker(b, i, ok) ==
    LET b1 == [b EXCEPT !.pending = @ \ {i}, !.worker = "running"]
        b2 == IF ok THEN RecordSucceeded(b1, i) ELSE RecordErrored(b1, i)
    IN  RunWorker(b2, i + 1)

\* ------------------------------------------------------------------------
\* Part I : batch engine, actions
\* ------------------------------------------------------------------------

\* GET /:batchId
GetBatch(id) ==
    /\ response' = IF id \notin DOMAIN batches
                   THEN [op |-> "get", code |-> 404, id |-> id, type |-> "not_found_error"]
                   ELSE [op |-> "get", code |-> 200, id |-> id, body |-> Metadata(batches[id])]
    /\ UNCHANGED batches

\* GET /
ListBatches ==
    /\ response' = [op |-> "list", code |-> 200,
                    data |-> [j \in DOMAIN batches |-> Metadata(batches[j])]]
    /\ UNCHANGED batches

\* The cancel handler as it would be if it marked every job that has not
\* ended instead of the one it looked up.
CancelBatch_Every(id) ==
    /\ IF id \notin DOMAIN batches
       THEN /\ response' = [op |-> "cancel", code |-> 404, id |-> id, type |-> "not_found_error"]
            /\ UNCHANGED batches
       ELSE IF batches[id].processing_status = "ended"
       THEN /\ response' = [op |-> "cancel", code |-> 400, id |-> id,
                            type |-> "invalid_request_error"]
            /\ UNCHANGED batches
       ELSE LET mark(b) == IF b.processing_status = "ended" THEN b
                           ELSE [b EXCEPT !.processing_status = "canceling",
                                          !.cancel_initiated_at = Timestamp]
            IN  /\ batches' = [j \in DOMAIN batches |-> mark(batches[j])]
                /\ response' = [op |-> "cancel", code |-> 200, id |-> id,
                                body |-> Metadata(mark(batches[id]))]

\* The cancel handler as it would be without the check for an ended job.
CancelBatch_NoEndedCheck(id) ==
    /\ IF id \notin DOMAIN batches
       THEN /\ response' = [op |-> "cancel", code |-> 404, id |-> id, type |-> "not_found_error"]
            /\ UNCHANGED batches
       ELSE LET batch == [batches[id] EXCEPT !.processing_status = "canceling",
                                             !.cancel_initiated_at = Timestamp]
            IN  /\ batches' = [batches EXCEPT ![id] = batch]
                /\ response' = [op |-> "cancel", code |-> 200, id |-> id,
                                body |-> Metadata(batch)]

\* POST /:batchId/cancel
CancelBatch(id) ==
    /\ IF id \notin DOMAIN batches
       THEN /\ response' = [op |-> "cancel", code |-> 404, id |-> id, type |-> "not_found_error"]
            /\ UNCHANGED batches
       ELSE IF batches[id].processing_status = "ended"
       THEN /\ response' = [op |-> "cancel", code |-> 400, id |-> id,
                            type |-> "invalid_request_error"]
            /\ UNCHANGED batches
       ELSE LET batch == [batches[id] EXCEPT !.processing_status = "canceling",
                                             !.cancel_initiated_at = Timestamp]
            IN  /\ batches' = [batches EXCEPT ![id] = batch]
                /\ response' = [op |-> "cancel", code |-> 200, id |-> id,
                                body |-> Metadata(batch)]

\* GET /:batchId/results
GetResults(id) ==
    /\ response' = IF id \notin DOMAIN batches
                   THEN [op |-> "results", code |-> 404, id |-> id, type |-> "not_found_error"]
                   ELSE IF ~ batches[id].results_set
                   THEN [op |-> "results", code |-> 400, id |-> id,
                         type |-> "invalid_request_error"]
                   ELSE [op |-> "results", code |-> 200, id |-> id,
                         status |-> batches[id].processing_status,
                         body |-> batches[id].results]
    /\ UNCHANGED batches

\* ------------------------------------------------------------------------
\* Part II : stream reconstructor, values
\* ------------------------------------------------------------------------
\* A text is the sequence of its characters.

\* "I'll help you check the weather in that location."
Text_get_weather ==
    << "I", "'", "l", "l", " ", "h", "e", "l", "p", " ", "y", "o", "u", " ",
       "c", "h", "e", "c", "k", " ", "t", "h", "e", " ", "w", "e", "a", "t",
       "h", "e", "r", " ", "i", "n", " ", "t", "h", "a", "t", " ", "l", "o",
       "c", "a", "t", "i", "o", "n", "." >>

\* "I'll list the files in that directory for you."
Text_LS ==
    << "I", "'", "l", "l", " ", "l", "i", "s", "t", " ", "t", "h", "e", " ",
       "f", "i", "l", "e", "s", " ", "i", "n", " ", "t", "h", "a", "t", " ",
       "d", "i", "r", "e", "c", "t", "o", "r", "y", " ", "f", "o", "r", " ",
       "y", "o", "u", "." >>

\* "I'll read that file for you."
Text_Read ==
    << "I", "'", "l", "l", " ", "r", "e", "a", "d", " ", "t", "h", "a", "t",
       " ", "f", "i", "l", "e", " ", "f", "o", "r", " ", "y", "o", "u", "." >>

\* "I'll write to that file."
Text_Write ==
    << "I", "'", "l", "l", " ", "w", "r", "i", "t", "e", " ", "t", "o", " ",
       "t", "h", "a", "t", " ", "f", "i", "l", "e", "." >>

\* "I'll execute that command for you."
Text_Bash ==
    << "I", "'", "l", "l", " ", "e", "x", "e", "c", "u", "t", "e", " ", "t",
       "h", "a", "t", " ", "c", "o", "m", "m", "a", "n", "d", " ", "f", "o",
       "r", " ", "y", "o", "u", "." >>

\* "I'll help you with that."
Text_default ==
    << "I", "'", "l", "l", " ", "h", "e", "l", "p", " ", "y", "o", "u", " ",
       "w", "i", "t", "h", " ", "t", "h", "a", "t", "." >>

\* 'San Francisco, CA'
SanFranciscoCA ==
    << "S", "a", "n", " ", "F", "r", "a", "n", "c", "i", "s", "c", "o", ",",
       " ", "C", "A" >>

\* '"location"'
LocationKey ==
    << "\"", "l", "o", "c", "a", "t", "i", "o", "n", "\"" >>

\* '{"loc'
Frag_open ==
    << "{", "\"", "l", "o", "c" >>

\* '":"NYC"}'
Frag_close ==
    << "\"", ":", "\"", "N", "Y", "C", "\"", "}" >>

\* '{"location":"San'
Frag_cut ==
    << "{", "\"", "l", "o", "c", "a", "t", "i", "o", "n", "\"", ":", "\"",
       "S", "a", "n" >>

\* 'Hi'
Text_Hi ==
    << "H", "i" >>


\* JSON.stringify of the empty object, which JSON.parse is given for absent
\* arguments.
EmptyObjectJson == << "{", "}" >>

\* The id made up for a call whose first fragment carries none
\* (`call_${Math.random()...}`).
RandomCallId == "call_random"

NoUsage == [present |-> FALSE, prompt_tokens |-> 0, completion_tokens |-> 0]

Usage(p, c) == [present |-> TRUE, prompt_tokens |-> p, completion_tokens |-> c]

\* One entry of delta.tool_calls; "" and << >> stand for an absent field.
ToolCallDelta(index, id, name, arguments) ==
    [index |-> index, id |-> id, name |-> name, arguments |-> arguments]

\* One chunk of the backend stream: choices[0] (when the chunk has a choice)
\* with its delta.content, delta.tool_calls and finish_reason, and usage;
\* has_choices tells that chunk.choices is an array.
Chunk(has_choice, content, tool_calls, finish_reason, usage) ==
    [has_choices |-> TRUE, has_choice |-> has_choice, content |-> content,
     tool_calls |-> tool_calls, finish_reason |-> finish_reason, usage |-> usage]

TextChunk(text) == Chunk(TRUE, text, << >>, "", NoUsage)
ToolChunk(deltas, finish_reason) == Chunk(TRUE, << >>, deltas, finish_reason, NoUsage)
FinishChunk(finish_reason) == Chunk(TRUE, << >>, << >>, finish_reason, NoUsage)
UsageChunk(p, c) == Chunk(FALSE, << >>, << >>, "", Usage(p, c))
\* A chunk without `choices`: chunk.choices[0] throws a TypeError.
NoChoicesChunk == [Chunk(FALSE, << >>, << >>, "", NoUsage) EXCEPT !.has_choices = FALSE]
NoChoicesMessage == "Cannot read properties of undefined (reading '0')"

\* The chunks the backend stream is made of in the model.
Chunks ==
    { TextChunk(Text_Hi),
      ToolChunk(<< ToolCallDelta(0, "call_a", "get_weather", << >>) >>, ""),
      ToolChunk(<< ToolCallDelta(0, "", "", Frag_open) >>, ""),
      ToolChunk(<< ToolCallDelta(0, "", "", Frag_close) >>, ""),
      ToolChunk(<< ToolCallDelta(0, "", "", Frag_close) >>, "tool_calls"),
      ToolChunk(<< ToolCallDelta(0, "call_c", "Bash", << >>) >>, ""),
      ToolChunk(<< ToolCallDelta(1, "call_b", "Foo", Frag_cut) >>, ""),
      ToolChunk(<< ToolCallDelta(1, "", "", Frag_open) >>, ""),
      ToolChunk(<< ToolCallDelta(0, "call_d", "toString", << >>) >>, "tool_calls"),
      ToolChunk(<< ToolCallDelta(0, "call_e", "constructor", << >>) >>, "tool_calls"),
      UsageChunk(5, 7),
      UsageChunk(0, 3),
      FinishChunk("stop"),
      FinishChunk("tool_calls") }

\* The events, by what they carry.
MessageStartEvent == [type |-> "message_start"]

ContentBlockStart(index, content_block) ==
    [type |-> "content_block_start", index |-> index, content_block |-> content_block]

TextDelta(index, text) ==
    [type |-> "content_block_delta", index |-> index,
     delta |-> [type |-> "text_delta", text |-> text]]

InputJsonDelta(index, partial_json) ==
    [type |-> "content_block_delta", index |-> index,
     delta |-> [type |-> "input_json_delta", partial_json |-> partial_json]]

ContentBlockStop(index) == [type |-> "content_block_stop", index |-> index]

MessageDeltaEvent(stop_reason, input_tokens, output_tokens) ==
    [type |-> "message_delta", stop_reason |-> stop_reason,
     input_tokens |-> input_tokens, output_tokens |-> output_tokens]

MessageStopEvent == [type |-> "message_stop"]

EmptyTextBlock == [type |-> "text", text |-> << >>]

ToolUseBlock(id, name) == [type |-> "tool_use", id |-> id, name |-> name, input |-> << >>]

\* ------------------------------------------------------------------------
\* Part II : stream reconstructor, functions
\* ------------------------------------------------------------------------

\* text.slice(i, i + n), i counted from 0.
Slice(text, i, n) ==
    SubSeq(text, i + 1, IF i + n < Len(text) THEN i + n ELSE Len(text))

\* The position of the first character at or after p that is no white space.
RECURSIVE SkipWs(_, _)
SkipWs(text, p) ==
    IF p <= Len(text) /\ text[p] = " " THEN SkipWs(text, p + 1) ELSE p

\* The position of the first quote at or after p, Len(text) + 1 if there is none.
RECURSIVE NextQuote(_, _)
NextQuote(text, p) ==
    IF p <= Len(text) /\ text[p] # "\"" THEN NextQuote(text, p + 1) ELSE p

ParseFailure == [ok |-> FALSE, value |-> << >>]

\* An object is the sequence of its members in insertion order; assigning to
\* a key that is there replaces its value in place.
PutMember(object, key, value) ==
    IF \E j \in 1..Len(object) : object[j].key = key
    THEN [j \in 1..Len(object) |->
             IF object[j].key = key THEN [key |-> key, value |-> value] ELSE object[j]]
    ELSE Append(object, [key |-> key, value |-> value])

\* The members of an object text from position p (the opening quote of a key)
\* on, added to `object`.
RECURSIVE ParseMembers(_, _, _)
ParseMembers(text, p, object) ==
    IF p > Len(text) \/ text[p] # "\"" THEN ParseFailure
    ELSE LET keyEnd == NextQuote(text, p + 1)
             colon == SkipWs(text, keyEnd + 1)
             valueStart == SkipWs(text, colon + 1)
             valueEnd == NextQuote(text, valueStart + 1)
             after == SkipWs(text, valueEnd + 1)
         IN  IF \/ keyEnd > Len(text)
                \/ colon > Len(text) \/ text[colon] # ":"
                \/ valueStart > Len(text) \/ text[valueStart] # "\""
                \/ valueEnd > Len(text)
                \/ after > Len(text)
             THEN ParseFailure
             ELSE LET next == PutMember(object, SubSeq(text, p + 1, keyEnd - 1),
                                        SubSeq(text, valueStart + 1, valueEnd - 1))
                  IN  IF text[after] = "}"
                      THEN IF SkipWs(text, after + 1) > Len(text)
                           THEN [ok |-> TRUE, value |-> next]
                           ELSE ParseFailure
                      ELSE IF text[after] = ","
                      THEN ParseMembers(text, SkipWs(text, after + 1), next)
                      ELSE ParseFailure

\* JSON.parse, for the texts the model's fragments make up: these are JSON
\* exactly when they are one object whose members are strings.  ok = FALSE is
\* the SyntaxError.
JsonParse(text) ==
    LET open == SkipWs(text, 1)
        first == SkipWs(text, open + 1)
    IN  IF open > Len(text) \/ text[open] # "{" THEN ParseFailure
        ELSE IF first <= Len(text) /\ text[first] = "}"
        THEN IF SkipWs(text, first + 1) > Len(text)
             THEN [ok |-> TRUE, value |-> << >>]
             ELSE ParseFailure
        ELSE ParseMembers(text, first, << >>)

RECURSIVE StringifyMembers(_, _)
StringifyMembers(object, j) ==
    IF j > Len(object) THEN << >>
    ELSE (IF j > 1 THEN << "," >> ELSE << >>)
         \o << "\"" >> \o object[j].key \o << "\"", ":", "\"" >> \o object[j].value
         \o << "\"" >> \o StringifyMembers(object, j + 1)

\* JSON.stringify of an object of strings.
JsonStringify(object) == << "{" >> \o StringifyMembers(object, 1) \o << "}" >>

\* args.match(/"location"\s*:\s*"([^"]*)/) tried at position p: the captured
\* group, when the pattern matches there.
LocationMatchAt(args, p) ==
    LET colon == SkipWs(args, p + Len(LocationKey))
        quote == SkipWs(args, colon + 1)
    IN  IF /\ p + Len(LocationKey) - 1 <= Len(args)
           /\ SubSeq(args, p, p + Len(LocationKey) - 1) = LocationKey
           /\ colon <= Len(args) /\ args[colon] = ":"
           /\ quote <= Len(args) /\ args[quote] = "\""
        THEN [matched |-> TRUE,
              group |-> SubSeq(args, quote + 1, NextQuote(args, quote + 1) - 1)]
        ELSE [matched |-> FALSE, group |-> << >>]

\* The leftmost match of the pattern at or after p.
RECURSIVE LocationMatch(_, _)
LocationMatch(args, p) ==
    IF p > Len(args) THEN [matched |-> FALSE, group |-> << >>]
    ELSE IF LocationMatchAt(args, p).matched THEN LocationMatchAt(args, p)
    ELSE LocationMatch(args, p + 1)

San == << "S", "a", "n" >>

LocationObject(location) == << [key |-> SubSeq(LocationKey, 2, Len(LocationKey) - 1),
                               value |-> location] >>

\* The input of a tool_use block: the parsed arguments, or what the fallback
\* makes of arguments that do not parse.
ToolInput(arguments) ==
    LET parsed == JsonParse(IF arguments = << >> THEN EmptyObjectJson ELSE arguments)
        locationMatch == LocationMatch(arguments, 1)
    IN  IF parsed.ok THEN parsed.value
        ELSE IF locationMatch.matched /\ locationMatch.group # << >>
        THEN LocationObject(IF locationMatch.group = San THEN SanFranciscoCA
                            ELSE locationMatch.group)
        ELSE LocationObject(SanFranciscoCA)

\* A string as the value of a lookup, with its length.
StringValue(text) == [kind |-> "string", text |-> text, length |-> Len(text)]

\* The functions explanatoryTexts inherits from Object.prototype, by name,
\* with their length (the number of their parameters).
ObjectPrototypeFunctions ==
    [constructor |-> 1, hasOwnProperty |-> 1, isPrototypeOf |-> 1,
     propertyIsEnumerable |-> 1, toString |-> 0, toLocaleString |-> 0,
     valueOf |-> 0, __defineGetter__ |-> 2, __defineSetter__ |-> 2,
     __lookupGetter__ |-> 1, __lookupSetter__ |-> 1]

\* explanatoryTexts[firstToolName] || "I'll help you with that.": the lookup
\* in the object literal finds the five phrases of the table and, for a name
\* that Object.prototype defines, the inherited member, which is truthy and
\* kept: a function with its length, or for __proto__ the prototype object,
\* which has no length (i < undefined is false, as with length 0).  Any other
\* name gives the fallback phrase.
ExplanatoryText(firstToolName) ==
    CASE firstToolName = "get_weather" -> StringValue(Text_get_weather)
      [] firstToolName = "LS" -> StringValue(Text_LS)
      [] firstToolName = "Read" -> StringValue(Text_Read)
      [] firstToolName = "Write" -> StringValue(Text_Write)
      [] firstToolName = "Bash" -> StringValue(Text_Bash)
      [] firstToolName \in DOMAIN ObjectPrototypeFunctions ->
             [kind |-> "function", text |-> << >>,
              length |-> ObjectPrototypeFunctions[firstToolName]]
      [] firstToolName = "__proto__" -> [kind |-> "object", text |-> << >>, length |-> 0]
      [] OTHER -> StringValue(Text_default)

\* The message of the TypeError of explanatoryText.slice(i, i + 5) when
\* explanatoryText is a function.
NotAFunctionMessage == "explanatoryText.slice is not a function"

\* The position in the buffer of the call with the given key, 0 if there is
\* none.
BufferPos(buffer, key) ==
    IF \E j \in 1..Len(buffer) : buffer[j].key = key
    THEN CHOOSE j \in 1..Len(buffer) : buffer[j].key = key
    ELSE 0

\* The loop's pass with the fragment assigned to the arguments instead of
\* appended to them.
AccumulateToolCall_Overwrite(buffer, toolCallDelta) ==
    LET toolCallKey == toolCallDelta.index
        created == IF BufferPos(buffer, toolCallKey) = 0
                   THEN Append(buffer,
                               [key |-> toolCallKey,
                                id |-> IF toolCallDelta.id # "" THEN toolCallDelta.id
                                       ELSE RandomCallId,
                                name |-> "",
                                arguments |-> << >>])
                   ELSE buffer
        j == BufferPos(created, toolCallKey)
        withName == IF toolCallDelta.name # ""
                    THEN [created[j] EXCEPT !.name = toolCallDelta.name]
                    ELSE created[j]
        withArguments == IF toolCallDelta.arguments # << >>
                         THEN [withName EXCEPT !.arguments = toolCallDelta.arguments]
                         ELSE withName
    IN  [created EXCEPT ![j] = withArguments]

\* One pass of the loop over delta.tool_calls.
AccumulateToolCall(buffer, toolCallDelta) ==
    LET toolCallKey == toolCallDelta.index
        created == IF BufferPos(buffer, toolCallKey) = 0
                   THEN Append(buffer,
                               [key |-> toolCallKey,
                                id |-> IF toolCallDelta.id # "" THEN toolCallDelta.id
                                       ELSE RandomCallId,
                                name |-> "",
                                arguments |-> << >>])
                   ELSE buffer
        j == BufferPos(created, toolCallKey)
        withId == IF toolCallDelta.id # "" /\ created[j].id = ""
                  THEN [created[j] EXCEPT !.id = toolCallDelta.id]
                  ELSE created[j]
        withName == IF toolCallDelta.name # ""
                    THEN [withId EXCEPT !.name = toolCallDelta.name]
                    ELSE withId
        withArguments == IF toolCallDelta.arguments # << >>
                         THEN [withName EXCEPT !.arguments = @ \o toolCallDelta.arguments]
                         ELSE withName
    IN  [created EXCEPT ![j] = withArguments]

RECURSIVE AccumulateToolCalls(_, _, _)
AccumulateToolCalls(buffer, tool_calls, j) ==
    IF j > Len(tool_calls) THEN buffer
    ELSE AccumulateToolCalls(AccumulateToolCall(buffer, tool_calls[j]), tool_calls, j + 1)

\* The position of the first call with a name at or after j, Len + 1 if none.
RECURSIVE NextNamed(_, _)
NextNamed(buffer, j) ==
    IF j <= Len(buffer) /\ buffer[j].name = "" THEN NextNamed(buffer, j + 1) ELSE j

SetMax(S) == CHOOSE x \in S : \A y \in S : y <= x

\* ------------------------------------------------------------------------
\* Part II : stream reconstructor, actions
\* ------------------------------------------------------------------------

\* A consumer that emits message_start as soon as the first chunk arrives.
Collect_Eager(chunk) ==
    /\ pc = "collect"
    /\ Len(allChunks) < MaxChunks
    /\ allChunks' = Append(allChunks, chunk)
    /\ events' = IF hasStarted THEN events ELSE << MessageStartEvent >>
    /\ hasStarted' = TRUE
    /\ UNCHANGED <<pc, hasFinished, totalInputTokens,
                   totalOutputTokens, activeContentBlocks, toolCallsBuffer, chunkIdx,
                   nextBlockIndex, toolIdx, sliceText, sliceAt>>

\* for await (const chunk of openAIStream) allChunks.push(chunk)
Collect(chunk) ==
    /\ pc = "collect"
    /\ Len(allChunks) < MaxChunks
    /\ allChunks' = Append(allChunks, chunk)
    /\ UNCHANGED <<pc, events, hasStarted, hasFinished, totalInputTokens,
                   totalOutputTokens, activeContentBlocks, toolCallsBuffer, chunkIdx,
                   nextBlockIndex, toolIdx, sliceText, sliceAt>>

\* The backend stream ends.
EndOfStream ==
    /\ pc = "collect"
    /\ pc' = "process"
    /\ chunkIdx' = 1
    /\ UNCHANGED <<allChunks, events, hasStarted, hasFinished, totalInputTokens,
                   totalOutputTokens, activeContentBlocks, toolCallsBuffer,
                   nextBlockIndex, toolIdx, sliceText, sliceAt>>

\* The generator runs from one `yield` to the next: pc names the place it is
\* suspended at, and every step below yields at most one event.

\* The rest of a pass of the loop over allChunks, after its last yield: the
\* tool calls, the usage and the finish signal of the chunk are taken in and
\* the loop goes on to the next chunk.
RestOfPass ==
    LET chunk == allChunks[chunkIdx] IN
    /\ toolCallsBuffer' = IF chunk.has_choice
                          THEN AccumulateToolCalls(toolCallsBuffer, chunk.tool_calls, 1)
                          ELSE toolCallsBuffer
    /\ totalInputTokens' = IF chunk.usage.present /\ chunk.usage.prompt_tokens # 0
                           THEN chunk.usage.prompt_tokens
                           ELSE totalInputTokens
    /\ totalOutputTokens' = IF chunk.usage.present /\ chunk.usage.completion_tokens # 0
                            THEN chunk.usage.completion_tokens
                            ELSE totalOutputTokens
    /\ hasFinished' = (hasFinished \/ (chunk.has_choice /\ chunk.finish_reason # ""))
    /\ chunkIdx' = chunkIdx + 1
    /\ pc' = "process"
    /\ UNCHANGED events

\* const choice = chunk.choices[0], which throws when the chunk has no
\* choices array and ends the generator; if (choice?.delta?.content): the
\* text block is opened if it is not open, else the delta is yielded; a chunk
\* without text goes on with the pass.
HandleContent ==
    LET chunk == allChunks[chunkIdx]
        hasText == chunk.has_choice /\ chunk.content # << >>
    IN  IF ~ chunk.has_choices
        THEN /\ pc' = "thrown"
             /\ UNCHANGED <<events, toolCallsBuffer, totalInputTokens, totalOutputTokens,
                            hasFinished, chunkIdx>>
        ELSE IF hasText /\ 0 \notin activeContentBlocks
        THEN /\ events' = Append(events, ContentBlockStart(0, EmptyTextBlock))
             /\ pc' = "text_start"
             /\ UNCHANGED <<toolCallsBuffer, totalInputTokens, totalOutputTokens,
                            hasFinished, chunkIdx>>
        ELSE IF hasText
        THEN /\ events' = Append(events, TextDelta(0, chunk.content))
             /\ pc' = "text_delta"
             /\ UNCHANGED <<toolCallsBuffer, totalInputTokens, totalOutputTokens,
                            hasFinished, chunkIdx>>
        ELSE RestOfPass

\* The head of a pass of the loop over allChunks: message_start is yielded
\* if it has not been; else the pass runs on to its first yield or its end.
ProcessChunk ==
    /\ pc = "process"
    /\ chunkIdx <= Len(allChunks)
    /\ IF ~ hasStarted
       THEN /\ events' = Append(events, MessageStartEvent)
            /\ pc' = "started"
            /\ UNCHANGED <<toolCallsBuffer, totalInputTokens, totalOutputTokens,
                           hasFinished, chunkIdx>>
       ELSE HandleContent
    /\ UNCHANGED <<allChunks, hasStarted, activeContentBlocks, nextBlockIndex, toolIdx,
                   sliceText, sliceAt>>

\* Resumed after the yield of message_start: hasStarted = true, and the pass
\* runs on.
AfterMessageStart ==
    /\ pc = "started"
    /\ hasStarted' = TRUE
    /\ HandleContent
    /\ UNCHANGED <<allChunks, activeContentBlocks, nextBlockIndex, toolIdx,
                   sliceText, sliceAt>>

\* Resumed after the yield of the text block's content_block_start:
\* activeContentBlocks.add(0), and the delta of the chunk is yielded.
AfterTextStart ==
    /\ pc = "text_start"
    /\ activeContentBlocks' = activeContentBlocks \cup {0}
    /\ events' = Append(events, TextDelta(0, allChunks[chunkIdx].content))
    /\ pc' = "text_delta"
    /\ UNCHANGED <<allChunks, hasStarted, hasFinished, totalInputTokens,
                   totalOutputTokens, toolCallsBuffer, chunkIdx, nextBlockIndex,
                   toolIdx, sliceText, sliceAt>>

\* Resumed after the yield of the chunk's text delta: the pass runs to its end.
AfterTextDelta ==
    /\ pc = "text_delta"
    /\ RestOfPass
    /\ UNCHANGED <<allChunks, hasStarted, activeContentBlocks, nextBlockIndex, toolIdx,
                   sliceText, sliceAt>>

\* After the open text block is closed: the index of the next block is
\* computed and, when a call has a name, the explanatory text block is
\* opened; else the loop over the calls is next.
AfterClose ==
    LET completedToolCalls == toolCallsBuffer
        next == IF activeContentBlocks # {} THEN SetMax(activeContentBlocks) + 1
                ELSE 0
        named == NextNamed(completedToolCalls, 1)
    IN  IF named <= Len(completedToolCalls)
        THEN /\ events' = Append(events, ContentBlockStart(next, EmptyTextBlock))
             /\ nextBlockIndex' = next
             /\ sliceText' = ExplanatoryText(completedToolCalls[named].name).text
             /\ sliceAt' = 0
             /\ pc' = "text"
             /\ UNCHANGED toolIdx
        ELSE /\ nextBlockIndex' = next
             /\ toolIdx' = 1
             /\ pc' = "tools"
             /\ UNCHANGED <<events, sliceText, sliceAt>>

\* After the loop: nothing more without a finish signal; with one, the open
\* text block is closed, and without an open block the run goes on.
AfterChunks ==
    /\ pc = "process"
    /\ chunkIdx > Len(allChunks)
    /\ IF ~ hasFinished
       THEN /\ pc' = "done"
            /\ UNCHANGED <<events, nextBlockIndex, toolIdx, sliceText, sliceAt>>
       ELSE IF 0 \in activeContentBlocks
       THEN /\ events' = Append(events, ContentBlockStop(0))
            /\ pc' = "text_closed"
            /\ UNCHANGED <<nextBlockIndex, toolIdx, sliceText, sliceAt>>
       ELSE AfterClose
    /\ UNCHANGED <<allChunks, hasStarted, hasFinished, totalInputTokens,
                   totalOutputTokens, activeContentBlocks, toolCallsBuffer, chunkIdx>>

\* Resumed after the yield of the text block's content_block_stop.
AfterTextClose ==
    /\ pc = "text_closed"
    /\ AfterClose
    /\ UNCHANGED <<allChunks, hasStarted, hasFinished, totalInputTokens,
                   totalOutputTokens, activeContentBlocks, toolCallsBuffer, chunkIdx>>

\* The local explanatoryText while its block is open: what the lookup gave
\* for the name of the first call that has one.
explanatoryText ==
    ExplanatoryText(toolCallsBuffer[NextNamed(toolCallsBuffer, 1)].name)

\* One pass of the loop that slices the explanatory text, up to its delay;
\* explanatoryText.slice throws a TypeError when explanatoryText is a
\* function.
TextSlice ==
    /\ pc = "text"
    /\ sliceAt < explanatoryText.length
    /\ IF explanatoryText.kind = "string"
       THEN /\ events' = Append(events, TextDelta(nextBlockIndex, Slice(sliceText, sliceAt, 5)))
            /\ sliceAt' = sliceAt + 5
            /\ UNCHANGED pc
       ELSE /\ pc' = "thrown"
            /\ UNCHANGED <<events, sliceAt>>
    /\ UNCHANGED <<allChunks, hasStarted, hasFinished, totalInputTokens,
                   totalOutputTokens, activeContentBlocks, toolCallsBuffer, chunkIdx,
                   nextBlockIndex, toolIdx, sliceText>>

\* The explanatory text block is closed.
TextStop ==
    /\ pc = "text"
    /\ sliceAt >= explanatoryText.length
    /\ events' = Append(events, ContentBlockStop(nextBlockIndex))
    /\ nextBlockIndex' = nextBlockIndex + 1
    /\ toolIdx' = 1
    /\ pc' = "tools"
    /\ UNCHANGED <<allChunks, hasStarted, hasFinished, totalInputTokens,
                   totalOutputTokens, activeContentBlocks, toolCallsBuffer, chunkIdx,
                   sliceText, sliceAt>>

\* The loop over the completed calls: the calls without a name are skipped and
\* the block of the next call with a name is opened; after the last call the
\* message_delta is due.
ToolStart ==
    /\ pc = "tools"
    /\ LET named == NextNamed(toolCallsBuffer, toolIdx) IN
       IF named <= Len(toolCallsBuffer)
       THEN /\ events' = Append(events,
                                ContentBlockStart(nextBlockIndex,
                                                  ToolUseBlock(toolCallsBuffer[named].id,
                                                               toolCallsBuffer[named].name)))
            /\ sliceText' = JsonStringify(ToolInput(toolCallsBuffer[named].arguments))
            /\ sliceAt' = 0
            /\ toolIdx' = named
            /\ pc' = "json"
       ELSE /\ toolIdx' = named
            /\ pc' = "message_delta"
            /\ UNCHANGED <<events, sliceText, sliceAt>>
    /\ UNCHANGED <<allChunks, hasStarted, hasFinished, totalInputTokens,
                   totalOutputTokens, activeContentBlocks, toolCallsBuffer, chunkIdx,
                   nextBlockIndex>>

\* One pass of the loop that slices the input JSON, up to its delay.
JsonSlice ==
    /\ pc = "json"
    /\ sliceAt < Len(sliceText)
    /\ events' = Append(events, InputJsonDelta(nextBlockIndex, Slice(sliceText, sliceAt, 3)))
    /\ sliceAt' = sliceAt + 3
    /\ UNCHANGED <<pc, allChunks, hasStarted, hasFinished, totalInputTokens,
                   totalOutputTokens, activeContentBlocks, toolCallsBuffer, chunkIdx,
                   nextBlockIndex, toolIdx, sliceText>>

\* The tool_use block is closed.
ToolStop ==
    /\ pc = "json"
    /\ sliceAt >= Len(sliceText)
    /\ events' = Append(events, ContentBlockStop(nextBlockIndex))
    /\ nextBlockIndex' = nextBlockIndex + 1
    /\ toolIdx' = toolIdx + 1
    /\ pc' = "tools"
    /\ UNCHANGED <<allChunks, hasStarted, hasFinished, totalInputTokens,
                   totalOutputTokens, activeContentBlocks, toolCallsBuffer, chunkIdx,
                   sliceText, sliceAt>>

MessageDelta ==
    /\ pc = "message_delta"
    /\ events' = Append(events,
                        MessageDeltaEvent("tool_use", totalInputTokens, totalOutputTokens))
    /\ pc' = "message_stop"
    /\ UNCHANGED <<allChunks, hasStarted, hasFinished, totalInputTokens,
                   totalOutputTokens, activeContentBlocks, toolCallsBuffer, chunkIdx,
                   nextBlockIndex, toolIdx, sliceText, sliceAt>>

MessageStop ==
    /\ pc = "message_stop"
    /\ events' = Append(events, MessageStopEvent)
    /\ pc' = "done"
    /\ UNCHANGED <<allChunks, hasStarted, hasFinished, totalInputTokens,
                   totalOutputTokens, activeContentBlocks, toolCallsBuffer, chunkIdx,
                   nextBlockIndex, toolIdx, sliceText, sliceAt>>

\* ------------------------------------------------------------------------
\* Part III : messages endpoint, values
\* ------------------------------------------------------------------------

\* ModelManager.models: the built-in mappings and three that a configuration
\* file adds.
ModelNames ==
    { "claude-3-5-sonnet-20241022", "claude-3-5-haiku-20241022",
      "claude-3-opus-20240229", "claude-long", "claude-search", "claude-think" }

Models ==
    [ name \in ModelNames |->
        CASE name = "claude-3-5-sonnet-20241022" ->
                 [openaiModelName |-> "gpt-4o", maxTokens |-> 8192]
          [] name = "claude-3-5-haiku-20241022" ->
                 [openaiModelName |-> "gpt-4o-mini", maxTokens |-> 8192]
          [] name = "claude-3-opus-20240229" ->
                 [openaiModelName |-> "gpt-4-turbo", maxTokens |-> 4096]
          [] name = "claude-long" ->
                 [openaiModelName |-> "gpt-4.1", maxTokens |-> 16384]
          [] name = "claude-search" ->
                 [openaiModelName |-> "gpt-4o-search", maxTokens |-> 8192]
          [] OTHER ->
                 [openaiModelName |-> "o3", maxTokens |-> 4096] ]

\* undefined, for a model name that is not mapped.
NoModelConfig == [openaiModelName |-> "", maxTokens |-> 0]

GetModelConfig(claudeModelName) ==
    IF claudeModelName \in ModelNames THEN Models[claudeModelName] ELSE NoModelConfig

\* longContextThreshold, which a configuration may leave out.
NoThreshold == [set |-> FALSE, value |-> 0]
Threshold(n) == [set |-> TRUE, value |-> n]

\* The router configurations: "" is a route that is not configured.
RouterConfigs ==
    [ default : {"claude-3-5-sonnet-20241022"},
      longContext : {"", "claude-long"},
      longContextThreshold : {NoThreshold, Threshold(0), Threshold(50000),
                              Threshold(60000)},
      webSearch : {"", "claude-search"},
      background : {"", "claude-3-5-haiku-20241022"},
      think : {"", "claude-think"} ]

\* What ModelManager sets when the configuration has no router.
DefaultRouterConfig ==
    [ default |-> "claude-3-5-sonnet-20241022", longContext |-> "",
      longContextThreshold |-> Threshold(60000), webSearch |-> "",
      background |-> "", think |-> "" ]

\* The text routeModel looks for in the system prompt.
WebSearchIndicator == "You are an assistant for performing a web search tool use"

\* request.system: absent, a string, or an object whose text is a number.
NoSystem == [kind |-> "none", text |-> ""]
SystemText(text) == [kind |-> "string", text |-> text]
SystemNumber == [kind |-> "object", text |-> "5"]

WebSearchTool == [type |-> "web_search_20250305", name |-> "web_search", has_schema |-> FALSE]
FunctionTool == [type |-> "custom", name |-> "get_weather", has_schema |-> TRUE]

\* Content blocks of a protocol-A message.
TextBlock(text) == [type |-> "text", text |-> text]
ToolUseParam(id, name, input) == [type |-> "tool_use", id |-> id, name |-> name, input |-> input]
ToolResultBlock(tool_use_id, content) ==
    [type |-> "tool_result", tool_use_id |-> tool_use_id, content |-> content]

\* A content that is a string, and one that is an array of blocks.
StringContent(text) == [is_string |-> TRUE, text |-> text, blocks |-> << >>]
BlocksContent(blocks) == [is_string |-> FALSE, text |-> "", blocks |-> blocks]

Message(role, content) == [role |-> role, content |-> content]

\* What calculateTokenCount does with the request: it returns a count or it
\* throws.
Estimate(n) == [throws |-> FALSE, tokens |-> n]
EstimateThrows == [throws |-> TRUE, tokens |-> 0]

\* A tool_result content with the marker of a web search result.
WebSearchResultText == "Web search results for query: weather [{\"title\":\"a\",\"url\":\"b\"}]"


\* ------------------------------------------------------------------------
\* Part III : messages endpoint, functions
\* ------------------------------------------------------------------------

\* text.includes(part)
Includes(text, part) ==
    \E i \in 1..(Len(text) - Len(part) + 1) : SubSeq(text, i, i + Len(part) - 1) = part

\* Math.min of a set of numbers.
MathMin(S) == CHOOSE x \in S : \A y \in S : x <= y

IsText(block) == block.type = "text"
IsToolUseParam(block) == block.type = "tool_use"
IsToolResult(block) == block.type = "tool_result"

\* The characters a to b of a text as JSON.stringify writes them inside a
\* string: a quote and a backslash get a backslash before them, a line feed
\* becomes \n.
RECURSIVE JsonEscape(_, _, _)
JsonEscape(text, a, b) ==
    IF a > b THEN ""
    ELSE IF a = b
    THEN LET c == SubSeq(text, a, a) IN
         CASE c = "\"" -> "\\\""
           [] c = "\\" -> "\\\\"
           [] c = "\n" -> "\\n"
           [] OTHER -> c
    ELSE JsonEscape(text, a, (a + b) \div 2) \o JsonEscape(text, (a + b) \div 2 + 1, b)

\* JSON.stringify of a string.
JsonString(text) == "\"" \o JsonEscape(text, 1, Len(text)) \o "\""

\* JSON.stringify of an array of text blocks.
RECURSIVE StringifyBlocks(_, _)
StringifyBlocks(blocks, j) ==
    IF j > Len(blocks) THEN ""
    ELSE (IF j > 1 THEN "," ELSE "")
         \o "{\"type\":\"text\",\"text\":" \o JsonString(blocks[j].text) \o "}"
         \o StringifyBlocks(blocks, j + 1)

\* typeof content === 'string' ? content : JSON.stringify(content)
ContentString(content) ==
    IF content.is_string THEN content.text
    ELSE "[" \o StringifyBlocks(content.blocks, 1) \o "]"

\* textBlocks.map(b => b.text).join('\n')
RECURSIVE JoinTexts(_, _)
JoinTexts(textBlocks, j) ==
    IF j > Len(textBlocks) THEN ""
    ELSE (IF j > 1 THEN "\n" ELSE "") \o textBlocks[j].text \o JoinTexts(textBlocks, j + 1)

OpenAIMessage(role, content, tool_calls, tool_call_id) ==
    [role |-> role, content |-> content, tool_calls |-> tool_calls,
     tool_call_id |-> tool_call_id]

\* convertContent: the text blocks become text parts, tool_use and
\* tool_result blocks none.
ConvertContent(content) ==
    IF content.is_string THEN content
    ELSE BlocksContent(SelectSeq(content.blocks, IsText))

\* convertMessage
ConvertMessage(claudeMessage) ==
    LET role == IF claudeMessage.role = "user" THEN "user" ELSE "assistant"
        content == claudeMessage.content
        toolUseBlocks == SelectSeq(content.blocks, IsToolUseParam)
        toolResultBlocks == SelectSeq(content.blocks, IsToolResult)
        textBlocks == SelectSeq(content.blocks, IsText)
    IN  IF content.is_string
        THEN OpenAIMessage(role, StringContent(content.text), << >>, "")
        ELSE IF toolUseBlocks # << >>
        THEN OpenAIMessage("assistant", StringContent(JoinTexts(textBlocks, 1)),
                           [j \in 1..Len(toolUseBlocks) |->
                               [id |-> toolUseBlocks[j].id,
                                type |-> "function",
                                name |-> toolUseBlocks[j].name,
                                arguments |-> JsonStringify(toolUseBlocks[j].input)]],
                           "")
        ELSE IF toolResultBlocks # << >>
        THEN OpenAIMessage("tool",
                           StringContent(ContentString(toolResultBlocks[1].content)),
                           << >>, toolResultBlocks[1].tool_use_id)
        ELSE OpenAIMessage(role, ConvertContent(content), << >>, "")

\* The conservative limit of convertClaudeToOpenAI.
absoluteMaxTokens == 8192

HasInputSchema(tool) == tool.has_schema

\* convertTool
ConvertTool(claudeTool) == [type |-> "function", name |-> claudeTool.name]

\* request.system is truthy.
HasSystem(system) == system.kind = "object" \/ (system.kind = "string" /\ system.text # "")

\* convertClaudeToOpenAI; tools = << >> is a request without a tools field.
ConvertClaudeToOpenAI(request, modelConfig) ==
    [ model |-> modelConfig.openaiModelName,
      messages |-> (IF HasSystem(request.system)
                    THEN << [role |-> "system", content |-> request.system] >>
                    ELSE << >>)
                   \o [j \in 1..Len(request.messages) |-> ConvertMessage(request.messages[j])],
      max_tokens |-> MathMin({request.max_tokens, modelConfig.maxTokens, absoluteMaxTokens}),
      stream |-> request.stream,
      tools |-> [j \in 1..Len(SelectSeq(request.tools, HasInputSchema)) |->
                    ConvertTool(SelectSeq(request.tools, HasInputSchema)[j])] ]

\* routeModel: the estimator or the reading of the system prompt may throw,
\* and the catch returns the default route.
RouteModel(request, config) ==
    LET tokenCount == request.estimate.tokens
        hasExactlyOneWebSearchTool ==
            /\ Len(request.tools) = 1
            /\ request.tools[1].type = "web_search_20250305"
            /\ request.tools[1].name = "web_search"
        hasWebSearchSystemIndicator ==
            /\ request.system.kind = "string"
            /\ Includes(request.system.text, WebSearchIndicator)
        longContextThreshold ==
            IF config.longContextThreshold.set /\ config.longContextThreshold.value # 0
            THEN config.longContextThreshold.value
            ELSE 60000
    IN  IF request.estimate.throws \/ request.system.kind = "object"
        THEN config.default
        ELSE IF hasExactlyOneWebSearchTool /\ hasWebSearchSystemIndicator
                /\ config.webSearch # ""
        THEN config.webSearch
        ELSE IF tokenCount > longContextThreshold /\ config.longContext # ""
        THEN config.longContext
        ELSE IF Includes(request.model, "haiku") /\ config.background # ""
        THEN config.background
        ELSE IF request.thinking /\ config.think # ""
        THEN config.think
        ELSE config.default


\* A chat completion of the backend: choices[0] when there is one, with its
\* message.content (absent, a string or an array of parts), its tool calls
\* and its finish_reason ("" is null), and the usage.
NoContent == [kind |-> "none", text |-> "", parts |-> << >>]
TextContent(text) == [kind |-> "string", text |-> text, parts |-> << >>]
PartsContent(parts) == [kind |-> "parts", text |-> "", parts |-> parts]

OpenAIResponse(has_choice, content, tool_calls, finish_reason, usage) ==
    [has_choice |-> has_choice, content |-> content, tool_calls |-> tool_calls,
     finish_reason |-> finish_reason, usage |-> usage]

\* convertOpenAIStopReason with `length` left to the default.
ConvertOpenAIStopReason_NoLength(openAIReason) ==
    CASE openAIReason = "stop" -> "end_turn"
      [] openAIReason = "content_filter" -> "end_turn"
      [] openAIReason = "tool_calls" -> "tool_use"
      [] OTHER -> "end_turn"

\* convertOpenAIStopReason
ConvertOpenAIStopReason(openAIReason) ==
    CASE openAIReason = "stop" -> "end_turn"
      [] openAIReason = "length" -> "max_tokens"
      [] openAIReason = "content_filter" -> "end_turn"
      [] openAIReason = "tool_calls" -> "tool_use"
      [] OTHER -> "end_turn"

\* parts.map(part => part.type === 'text' ? part.text : '').join('')
RECURSIVE JoinParts(_, _)
JoinParts(parts, j) ==
    IF j > Len(parts) THEN ""
    ELSE (IF parts[j].type = "text" THEN parts[j].text ELSE "") \o JoinParts(parts, j + 1)

\* The tool_use block of a backend tool call: its arguments parsed, or
\* wrapped in an object when they do not parse.
ToolUseOfCall(toolCall) ==
    LET parsed == JsonParse(toolCall.arguments) IN
    [type |-> "tool_use", id |-> toolCall.id, name |-> toolCall.name,
     input |-> IF parsed.ok THEN parsed.value
               ELSE << [key |-> << "a", "r", "g", "u", "m", "e", "n", "t", "s" >>,
                        value |-> toolCall.arguments] >>]

\* convertOpenAIToClaude without the empty text block for an empty content.
ConvertOpenAIToClaude_EmptyContent(openAIResponse, claudeModel) ==
    LET textContent == IF openAIResponse.content.kind = "string"
                       THEN openAIResponse.content.text
                       ELSE JoinParts(openAIResponse.content.parts, 1)
        text == IF textContent # "" THEN << TextBlock(textContent) >> ELSE << >>
        tools == [j \in 1..Len(openAIResponse.tool_calls) |->
                     ToolUseOfCall(openAIResponse.tool_calls[j])]
    IN  IF ~ openAIResponse.has_choice
        THEN [ok |-> FALSE, message |-> [content |-> << >>]]
        ELSE [ok |-> TRUE,
              message |->
                [model |-> claudeModel,
                 content |-> text \o tools,
                 stop_reason |-> ConvertOpenAIStopReason(openAIResponse.finish_reason),
                 usage |-> [input_tokens |-> openAIResponse.usage.prompt_tokens,
                            output_tokens |-> openAIResponse.usage.completion_tokens]]]

\* convertOpenAIToClaude as createMessage calls it (without options): ok =
\* FALSE is the Error thrown for a response without a choice.
ConvertOpenAIToClaude(openAIResponse, claudeModel) ==
    LET textContent == IF openAIResponse.content.kind = "string"
                       THEN openAIResponse.content.text
                       ELSE JoinParts(openAIResponse.content.parts, 1)
        text == IF textContent # "" THEN << TextBlock(textContent) >> ELSE << >>
        tools == [j \in 1..Len(openAIResponse.tool_calls) |->
                     ToolUseOfCall(openAIResponse.tool_calls[j])]
        content == text \o tools
    IN  IF ~ openAIResponse.has_choice
        THEN [ok |-> FALSE, message |-> [content |-> << >>]]
        ELSE [ok |-> TRUE,
              message |->
                [model |-> claudeModel,
                 content |-> IF content = << >> THEN << TextBlock("") >> ELSE content,
                 stop_reason |-> ConvertOpenAIStopReason(openAIResponse.finish_reason),
                 usage |-> [input_tokens |-> openAIResponse.usage.prompt_tokens,
                            output_tokens |-> openAIResponse.usage.completion_tokens]]]


\* The characters of a string.
Chars(text) == [i \in 1..Len(text) |-> SubSeq(text, i, i)]

\* text.lastIndexOf(ch) + 1, 0 when ch is not in the text.
LastIndexOf(text, ch) ==
    IF \E i \in 1..Len(text) : SubSeq(text, i, i) = ch
    THEN CHOOSE i \in 1..Len(text) :
             /\ SubSeq(text, i, i) = ch
             /\ \A k \in (i + 1)..Len(text) : SubSeq(text, k, k) # ch
    ELSE 0

\* The backward scan of parseSearchResult from position i with bracketCount:
\* the position of the '[' that brings the count to 0, 0 when there is none.
RECURSIVE FirstBracket(_, _, _)
FirstBracket(text, i, bracketCount) ==
    IF i < 1 THEN 0
    ELSE IF SubSeq(text, i, i) = "]" THEN FirstBracket(text, i - 1, bracketCount + 1)
    ELSE IF SubSeq(text, i, i) = "["
    THEN IF bracketCount - 1 = 0 THEN i ELSE FirstBracket(text, i - 1, bracketCount - 1)
    ELSE FirstBracket(text, i - 1, bracketCount)

\* text.trim(), for texts whose white space is the space.
RECURSIVE Trim(_)
Trim(text) ==
    IF text = "" THEN ""
    ELSE IF SubSeq(text, 1, 1) = " " THEN Trim(SubSeq(text, 2, Len(text)))
    ELSE IF SubSeq(text, Len(text), Len(text)) = " "
    THEN Trim(SubSeq(text, 1, Len(text) - 1))
    ELSE text

\* The position of the first closing brace at or after p, Len(text) + 1 if
\* there is none.
RECURSIVE NextBrace(_, _)
NextBrace(text, p) ==
    IF p <= Len(text) /\ text[p] # "}" THEN NextBrace(text, p + 1) ELSE p

\* The elements of an array text from position p (the opening brace of an
\* element) on, added to `array`.
RECURSIVE ParseElements(_, _, _)
ParseElements(text, p, array) ==
    IF p > Len(text) \/ text[p] # "{" THEN ParseFailure
    ELSE LET close == NextBrace(text, p)
             element == JsonParse(SubSeq(text, p, close))
             after == SkipWs(text, close + 1)
         IN  IF close > Len(text) \/ ~ element.ok THEN ParseFailure
             ELSE IF after > Len(text)
             THEN [ok |-> TRUE, value |-> Append(array, element.value)]
             ELSE IF text[after] = ","
             THEN ParseElements(text, SkipWs(text, after + 1),
                                Append(array, element.value))
             ELSE ParseFailure

\* JSON.parse of the array part, for the array texts of the model: these are
\* JSON exactly when they are an array of objects whose members are strings
\* (no string of the model holds a brace or a quote); ok = FALSE is the
\* SyntaxError.
JsonParseArray(arrayPart) ==
    LET inner == Chars(SubSeq(arrayPart, 2, Len(arrayPart) - 1))
        first == SkipWs(inner, 1)
    IN  IF first > Len(inner) THEN [ok |-> TRUE, value |-> << >>]
        ELSE ParseElements(inner, first, << >>)

\* parseSearchResult: null, a SyntaxError thrown by JSON.parse, or the query
\* part and the links.
ParseSearchResult(text) ==
    LET lastBracketIndex == LastIndexOf(text, "]")
        firstBracketIndex == FirstBracket(text, lastBracketIndex, 0)
        linksArray == JsonParseArray(SubSeq(text, firstBracketIndex, lastBracketIndex))
    IN  IF lastBracketIndex = 0 \/ firstBracketIndex = 0
        THEN [kind |-> "null", queryPart |-> "", linksArray |-> << >>]
        ELSE IF ~ linksArray.ok
        THEN [kind |-> "throws", queryPart |-> "", linksArray |-> << >>]
        ELSE [kind |-> "value",
              queryPart |-> Trim(SubSeq(text, 1, firstBracketIndex - 1)),
              linksArray |-> linksArray.value]

\* The string a sequence of characters spells.
RECURSIVE Str(_)
Str(chars) == IF chars = << >> THEN "" ELSE chars[1] \o Str(Tail(chars))

\* The object {title, url}.
Link(title, url) ==
    << [key |-> Chars("title"), value |-> Chars(title)],
       [key |-> Chars("url"), value |-> Chars(url)] >>

\* JSON.stringify of an array of objects of strings.
RECURSIVE StringifyArray(_, _)
StringifyArray(array, j) ==
    IF j > Len(array) THEN ""
    ELSE (IF j > 1 THEN "," ELSE "") \o Str(JsonStringify(array[j]))
         \o StringifyArray(array, j + 1)

Serialize(array) == "[" \o StringifyArray(array, 1) \o "]"

\* The marker of a web search tool result.
WebSearchMarker == "Web search results for query:"

IsWebSearchToolResult(block) ==
    /\ block.type = "tool_result"
    /\ block.content.is_string
    /\ Includes(block.content.text, WebSearchMarker)

IsUser(message) == message.role = "user"

HasToolResult(message) ==
    /\ ~ message.content.is_string
    /\ SelectSeq(message.content.blocks, IsToolResult) # << >>

\* The position of the last message of the user, 0 if there is none.
LastUserMessage(messages) ==
    IF \E j \in 1..Len(messages) : IsUser(messages[j])
    THEN CHOOSE j \in 1..Len(messages) :
             /\ IsUser(messages[j])
             /\ \A k \in (j + 1)..Len(messages) : ~ IsUser(messages[k])
    ELSE 0

\* The position of the last message with a tool_result block, 0 if there is
\* none.
ToolResultMessage(messages) ==
    IF \E j \in 1..Len(messages) : HasToolResult(messages[j])
    THEN CHOOSE j \in 1..Len(messages) :
             /\ HasToolResult(messages[j])
             /\ \A k \in (j + 1)..Len(messages) : ~ HasToolResult(messages[k])
    ELSE 0

\* content.map(c => c.type === 'text' ? c.text : '').join(' ')
RECURSIVE JoinSpace(_, _)
JoinSpace(blocks, j) ==
    IF j > Len(blocks) THEN ""
    ELSE (IF j > 1 THEN " " ELSE "")
         \o (IF blocks[j].type = "text" THEN blocks[j].text ELSE "")
         \o JoinSpace(blocks, j + 1)

\* detectWebSearchRequest: whether the request is a web search flow, whether
\* it is the one of a tool result, and the search query; throws when the
\* marked tool result holds an array part that is no JSON.  The query of an
\* initial request is the text of the last user message (no text of the model
\* has the form "search for ...").
DetectWebSearchRequest(request) ==
    LET hasExactlyOneWebSearchTool ==
            /\ Len(request.tools) = 1
            /\ request.tools[1].type = "web_search_20250305"
            /\ request.tools[1].name = "web_search"
        last == LastUserMessage(request.messages)
        marked == IF last = 0 \/ request.messages[last].content.is_string THEN << >>
                  ELSE SelectSeq(request.messages[last].content.blocks,
                                 IsWebSearchToolResult)
        isWebSearchToolResult == marked # << >>
        parsed == ParseSearchResult(marked[1].content.text)
        userContent == IF last = 0 THEN ""
                       ELSE IF request.messages[last].content.is_string
                       THEN request.messages[last].content.text
                       ELSE JoinSpace(request.messages[last].content.blocks, 1)
    IN  [ throws |-> isWebSearchToolResult /\ parsed.kind = "throws",
          hasWebSearch |-> hasExactlyOneWebSearchTool \/ isWebSearchToolResult,
          isToolResult |-> isWebSearchToolResult,
          searchQuery |-> IF isWebSearchToolResult
                          THEN (IF parsed.kind = "value" THEN parsed.queryPart ELSE "")
                          ELSE IF hasExactlyOneWebSearchTool THEN Trim(userContent)
                          ELSE "" ]


\* estimateTokens: one token for four characters.
EstimateTokens(text) == (Len(text) + 3) \div 4

NoMessage == [model |-> "", content |-> << >>, stop_reason |-> "", usage |-> [output_tokens |-> 0]]

\* JSON.stringify of the input of a server_tool_use block.
StringifyQuery(input) == "{\"query\":" \o JsonString(input.query) \o "}"

NoCall == [kind |-> "none"]

\* What a run of the adapter comes to before it has to wait: an Error thrown,
\* a call to wait for, or the message to return.
Throws(message) == [kind |-> "error", error |-> message, call |-> NoCall, message |-> NoMessage]
Calls(call) == [kind |-> "call", error |-> "", call |-> call, message |-> NoMessage]
Returns(message) == [kind |-> "message", error |-> "", call |-> NoCall, message |-> message]

\* The web_search_tool_result block of a list of results.
WebSearchToolResultBlock(results) ==
    [type |-> "web_search_tool_result",
     content |-> [j \in 1..Len(results) |->
                     [type |-> "web_search_result", result |-> results[j]]]]

\* The search results of the tool result request: the last tool_result block
\* of the last message that has one; a string is parsed (a SyntaxError gives
\* the empty list, null gives undefined), an array is taken as it is.
\* `parsed` tells the objects of a parsed array from the blocks of an array
\* content.
ToolResultSearchResults(request) ==
    LET m == ToolResultMessage(request.messages)
        toolResults == SelectSeq(request.messages[m].content.blocks, IsToolResult)
        toolResultBlock == toolResults[Len(toolResults)]
        parsed == ParseSearchResult(toolResultBlock.content.text)
    IN  IF m = 0 \/ (toolResultBlock.content.is_string /\ toolResultBlock.content.text = "")
        THEN [kind |-> "none", parsed |-> FALSE, items |-> << >>]
        ELSE IF ~ toolResultBlock.content.is_string
        THEN [kind |-> "array", parsed |-> FALSE, items |-> toolResultBlock.content.blocks]
        ELSE IF parsed.kind = "null" THEN [kind |-> "undefined", parsed |-> FALSE, items |-> << >>]
        ELSE [kind |-> "array", parsed |-> TRUE, items |-> parsed.linksArray]

\* The values of the ephemeral cache (MemoryStore, Part IV): a list of entries
\* in insertion order, as the Map keeps them.
DEFAULT_TTL == 3600000

\* undefined
Undefined == "undefined"

CacheItem(key, value, expireTime) ==
    [key |-> key, value |-> value, expireTime |-> expireTime]

NoWrite == [written |-> FALSE]
Wrote(value, expireTime) ==
    [written |-> TRUE, value |-> value, expireTime |-> expireTime]

NoReturn == [op |-> "none"]
Returned(op, key, result) == [op |-> op, key |-> key, result |-> result]

\* The position of the entry of a key, 0 if the map has none.
CachePos(entries, key) ==
    IF \E j \in 1..Len(entries) : entries[j].key = key
    THEN CHOOSE j \in 1..Len(entries) : entries[j].key = key
    ELSE 0

\* Map.set: the entry of a key that is there is replaced in place, a new key
\* is added last.
MapSet(entries, key, value, expireTime) ==
    IF CachePos(entries, key) # 0
    THEN [entries EXCEPT ![CachePos(entries, key)] = CacheItem(key, value, expireTime)]
    ELSE Append(entries, CacheItem(key, value, expireTime))

\* Map.delete
MapDelete(entries, key) == SelectSeq(entries, LAMBDA e : e.key # key)

\* The entries whose expiry time has not passed at time t.
Valid(entries, t) == SelectSeq(entries, LAMBDA e : t <= e.expireTime)

KeysOf(entries) == [j \in 1..Len(entries) |-> entries[j].key]

\* The entries after get(key) at time t: an entry whose expiry time has
\* passed is deleted by the get that finds it.
AfterGet(entries, key, t) ==
    IF CachePos(entries, key) # 0 /\ t > entries[CachePos(entries, key)].expireTime
    THEN MapDelete(entries, key)
    ELSE entries

\* A get that hands out whatever entry the map holds, expired or not.
GetValue_NoExpiry(entries, key, t) ==
    LET j == CachePos(entries, key) IN
    IF j = 0 THEN [hit |-> FALSE]
    ELSE [hit |-> TRUE, value |-> entries[j].value]

\* What get(key) returns at time t.
GetValue(entries, key, t) ==
    LET j == CachePos(entries, key) IN
    IF j = 0 \/ t > entries[j].expireTime THEN [hit |-> FALSE]
    ELSE [hit |-> TRUE, value |-> entries[j].value]

\* The text of generateFormattedResponse without the backend.
CouldNotFind(query) ==
    "I searched for \"" \o query \o "\" but couldn't find any relevant results."

\* result[name] of a search result: a member of a parsed object; a block of
\* an array content (a text block) has no title, url or content.
Field(result, parsed, name) ==
    IF parsed /\ \E j \in 1..Len(result) : result[j].key = Chars(name)
    THEN [defined |-> TRUE,
          text |-> Str(result[CHOOSE j \in 1..Len(result) : result[j].key = Chars(name)].value)]
    ELSE [defined |-> FALSE, text |-> "undefined"]

\* String(n) of a natural number.
RECURSIVE Decimal(_)
Decimal(n) ==
    IF n < 10 THEN SubSeq("0123456789", n + 1, n + 1)
    ELSE Decimal(n \div 10) \o SubSeq("0123456789", (n % 10) + 1, (n % 10) + 1)

\* The position of the first "/" of a text at or after p, Len(text) + 1 if
\* there is none.
RECURSIVE NextSlash(_, _)
NextSlash(text, p) ==
    IF p <= Len(text) /\ SubSeq(text, p, p) # "/" THEN NextSlash(text, p + 1) ELSE p

StartsWith(text, prefix) ==
    Len(text) >= Len(prefix) /\ SubSeq(text, 1, Len(prefix)) = prefix

\* new URL(url).hostname, "unknown" when the constructor throws; for the
\* urls of the model, which are lower case and either have the form
\* http(s)://host/path or are no URL.
Hostname(url) ==
    LET start == IF StartsWith(url.text, "http://") THEN 8
                 ELSE IF StartsWith(url.text, "https://") THEN 9
                 ELSE 0
    IN  IF ~ url.defined \/ start = 0 \/ start > Len(url.text) THEN "unknown"
        ELSE SubSeq(url.text, start, NextSlash(url.text, start) - 1)

\* [...new Set(strings)]
RECURSIVE Unique(_)
Unique(strings) ==
    IF strings = << >> THEN << >>
    ELSE LET front == Unique(SubSeq(strings, 1, Len(strings) - 1))
             last == strings[Len(strings)]
         IN  IF \E j \in 1..Len(front) : front[j] = last THEN front
             ELSE Append(front, last)

\* strings.join(separator)
RECURSIVE Join(_, _, _)
Join(strings, separator, j) ==
    IF j > Len(strings) THEN ""
    ELSE (IF j > 1 THEN separator ELSE "") \o strings[j] \o Join(strings, separator, j + 1)

\* generateSummaryFromResults; join writes an undefined title as the empty
\* string.
SummaryFromResults(searchResults, parsed) ==
    LET titles == [j \in 1..Len(searchResults) |->
                      IF Field(searchResults[j], parsed, "title").defined
                      THEN Field(searchResults[j], parsed, "title").text ELSE ""]
        domains == Unique([j \in 1..Len(searchResults) |->
                              Hostname(Field(searchResults[j], parsed, "url"))])
    IN  "Found " \o Decimal(Len(searchResults)) \o " relevant sources from "
        \o Join(domains, ", ", 1) \o ". The search covered topics related to: "
        \o Join(titles, ", ", 1) \o "."

\* The entry of generateFallbackResponse for the result at position j.
ResultSummary(result, parsed, j) ==
    LET content == Field(result, parsed, "content") IN
    Decimal(j) \o ". **" \o Field(result, parsed, "title").text \o "**\n   URL: "
    \o Field(result, parsed, "url").text \o "\n   Content: "
    \o (IF content.defined /\ content.text # ""
        THEN SubSeq(content.text, 1, IF Len(content.text) < 200 THEN Len(content.text) ELSE 200)
             \o "..."
        ELSE "No content available")

\* generateFallbackResponse
FallbackResponse(query, searchResults, parsed) ==
    "Based on the search results for \"" \o query \o "\", here's what I found:\n\n"
    \o Join([j \in 1..Len(searchResults) |-> ResultSummary(searchResults[j], parsed, j)],
            "\n\n", 1)
    \o "\n\n**Summary:**\n" \o SummaryFromResults(searchResults, parsed)

\* The entry of the summarization prompt for the result at position j:
\* info = memoryStore.get(result.url) at time t, info?.title ?? result.title
\* and info?.content || "No content available", cut at 300 characters.  A
\* result without url looks up the key undefined, which no entry has.
PromptEntry(result, parsed, j, entries, t) ==
    LET url == Field(result, parsed, "url")
        info == IF url.defined THEN GetValue(entries, url.text, t) ELSE [hit |-> FALSE]
        title == IF info.hit /\ "title" \in DOMAIN info.value THEN info.value.title
                 ELSE Field(result, parsed, "title").text
        content == IF info.hit /\ "content" \in DOMAIN info.value /\ info.value.content # ""
                   THEN info.value.content
                   ELSE "No content available"
    IN  Decimal(j) \o ". **" \o title \o "**\n   URL: " \o url.text \o "\n   Content: "
        \o SubSeq(content, 1, IF Len(content) < 300 THEN Len(content) ELSE 300)
        \o (IF Len(content) > 300 THEN "..." ELSE "")

\* The prompt generateFormattedResponse sends to the backend.
SummaryPrompt(query, searchResults, parsed, entries, t) ==
    "Based on the following search results for \"" \o query
    \o "\", please provide a comprehensive and well-structured response:\n\n"
    \o Join([j \in 1..Len(searchResults) |->
                PromptEntry(searchResults[j], parsed, j, entries, t)], "\n\n", 1)
    \o "\n\nPlease analyze and synthesize the information to provide a helpful answer to the query."

\* The cache after the gets of generateFormattedResponse for the results from
\* position j on: each get deletes the entry it finds expired, which is the
\* entry it and every later get of the key treats as absent.
RECURSIVE AfterGets(_, _, _, _, _)
AfterGets(entries, searchResults, parsed, j, t) ==
    IF j > Len(searchResults) THEN entries
    ELSE LET url == Field(searchResults[j], parsed, "url") IN
         AfterGets(IF url.defined THEN AfterGet(entries, url.text, t) ELSE entries,
                   searchResults, parsed, j + 1, t)

\* A callback that keeps the entry a link already has.
StoreResult_KeepFirst(entries, item, t) ==
    IF CachePos(entries, item.link) # 0 THEN entries
    ELSE MapSet(entries, item.link, item, t + DEFAULT_TTL)

\* memoryStore.set(i.link, { ...i }) at time t.
StoreResult(entries, item, t) ==
    MapSet(entries, item.link, item, t + DEFAULT_TTL)

\* The cache after callAliyunSearch has stored the results from position j
\* on, each under its link with the default time to live.
RECURSIVE StoreResults(_, _, _, _)
StoreResults(entries, search_result, j, t) ==
    IF j > Len(search_result) THEN entries
    ELSE StoreResults(StoreResult(entries, search_result[j], t), search_result, j + 1, t)

\* The record of the last write of each key after these sets.
RECURSIVE RecordWrites(_, _, _, _)
RecordWrites(writes, search_result, j, t) ==
    IF j > Len(search_result) THEN writes
    ELSE RecordWrites((search_result[j].link :> Wrote(search_result[j], t + DEFAULT_TTL))
                          @@ writes,
                      search_result, j + 1, t)

\* The message of the tool result phase; of its usage, the output tokens and
\* the count of searches (the input tokens estimate the serialized request).
ToolResultResponse(request, searchResults, formattedResponse) ==
    [model |-> request.model,
     content |-> << WebSearchToolResultBlock(searchResults), TextBlock(formattedResponse) >>,
     stop_reason |-> "end_turn",
     usage |-> [output_tokens |-> EstimateTokens(formattedResponse),
                web_search_requests |-> 1]]

\* The message of the initial phase, made of the provider's answer;
\* web_search_requests is aliyunResult.usage?.search_count || 1 (search_count
\* 0 stands for an answer without it).
SearchResponse(request, searchQuery, aliyunResult) ==
    LET text == "I'll search for information about " \o searchQuery \o "." IN
    [model |-> request.model,
     content |-> << TextBlock(text),
                    [type |-> "server_tool_use", name |-> "web_search",
                     input |-> [query |-> searchQuery]],
                    WebSearchToolResultBlock(aliyunResult.search_result) >>,
     stop_reason |-> "end_turn",
     usage |-> [output_tokens |-> EstimateTokens(text),
                web_search_requests |-> IF aliyunResult.search_count # 0
                                        THEN aliyunResult.search_count
                                        ELSE 1]]

\* The results createMessage looks up in the cache before its first external
\* call: those of the tool result it is given, in the tool result phase.
Lookups(request) ==
    LET ctx == DetectWebSearchRequest(request)
        found == ToolResultSearchResults(request)
    IN  IF ~ ctx.throws /\ ctx.hasWebSearch /\ ctx.isToolResult
           /\ found.kind = "array" /\ found.items # << >>
        THEN [items |-> found.items, parsed |-> found.parsed]
        ELSE [items |-> << >>, parsed |-> FALSE]

\* The cache after createMessage has run up to its first external call: the
\* tool result phase with results looks each of them up.
AfterCreate(entries, request, t) ==
    AfterGets(entries, Lookups(request).items, Lookups(request).parsed, 1, t)

CacheAfterCreate(request) == AfterCreate(cache, request, now)

\* createMessage, and streamMessage when `stream`, up to the first external
\* call: streamMessage hands a web search flow to createMessage and sends
\* every other request to the backend with stream: true.  The summarization
\* call of the tool result phase is sent with max_tokens 1000.
\* In the initial phase callAliyunSearch maps over request.system before it
\* calls the provider: a system that is no array (a string, an object) makes
\* it throw, which the phase reports as the failure of the search.
CreateMessage(request, modelConfig, stream) ==
    LET ctx == DetectWebSearchRequest(request)
        found == ToolResultSearchResults(request)
    IN  IF ctx.throws THEN Throws("Unexpected token")
        ELSE IF ctx.hasWebSearch /\ ctx.isToolResult
        THEN CASE found.kind = "none" ->
                      Throws("No search results found in tool result request")
               [] found.kind = "undefined" ->
                      Throws("Cannot read properties of undefined (reading 'map')")
               [] found.items = << >> ->
                      Returns(ToolResultResponse(request, << >>,
                                                 CouldNotFind(ctx.searchQuery)))
               [] OTHER ->
                      Calls([kind |-> "summarize",
                             model |-> modelConfig.openaiModelName,
                             prompt |-> SummaryPrompt(ctx.searchQuery, found.items,
                                                      found.parsed, cache, now),
                             max_tokens |-> 1000,
                             stream |-> FALSE])
        ELSE IF ctx.hasWebSearch
        THEN IF request.system.kind # "none"
             THEN Throws("Both API call and fallback failed")
             ELSE Calls([kind |-> "search", query |-> ctx.searchQuery])
        ELSE Calls([kind |-> IF stream THEN "stream" ELSE "one_shot"]
                   @@ [ConvertClaudeToOpenAI(request, modelConfig) EXCEPT !.stream = stream])


\* ------------------------------------------------------------------------
\* Part III : messages endpoint, actions
\* ------------------------------------------------------------------------

NoRequest == [model |-> ""]

\* No answer of the backend yet.
NoAnswer == [has_choice |-> FALSE, answered |-> FALSE]

NoBody == [kind |-> "none"]
ErrorBody(type, message) == [kind |-> "error", type |-> type, message |-> message]
MessageBody(message) == [kind |-> "message", message |-> message]

\* res before anything is given to it, res.status(s).json(body), and the
\* event stream after its headers are set.
NotWritten == [status |-> 0, stream |-> FALSE, body |-> NoBody, events |-> << >>,
               ended |-> FALSE]
Json(status, body) == [status |-> status, stream |-> FALSE, body |-> body,
                       events |-> << >>, ended |-> TRUE]
EventStream(evs, ended) == [status |-> 200, stream |-> TRUE, body |-> NoBody,
                            events |-> evs, ended |-> ended]

\* The `data:` line that carries an error.
ErrorEvent(message) == [type |-> "error", error |-> ErrorBody("api_error", message)]

\* A handler that answers every Error with the status 500, whether the
\* stream headers are set or not.
Deliver_Status(outcome, stream) ==
    CASE outcome.kind = "error" ->
             /\ written' = Json(500, ErrorBody("api_error", outcome.error))
             /\ at' = "done"
             /\ UNCHANGED <<backendCalls, claudeResponse, replayIndex, sliceI>>
      [] outcome.kind = "call" ->
             /\ backendCalls' = Append(backendCalls, outcome.call)
             /\ at' = outcome.call.kind
             /\ written' = IF stream THEN EventStream(<< >>, FALSE) ELSE written
             /\ UNCHANGED <<claudeResponse, replayIndex, sliceI>>
      [] OTHER ->
             /\ claudeResponse' = outcome.message
             /\ written' = IF stream THEN EventStream(<< >>, FALSE)
                           ELSE Json(200, MessageBody(outcome.message))
             /\ at' = IF stream THEN "replay" ELSE "done"
             /\ replayIndex' = 0
             /\ sliceI' = 0
             /\ UNCHANGED backendCalls

\* What the handler does with what the adapter has come to: an Error becomes a
\* 500 response, or an error event when the stream headers are set; a call is
\* made and waited for; a message is the JSON response, or is handed to
\* convertClaudeToStream.
Deliver(outcome, stream) ==
    CASE outcome.kind = "error" ->
             /\ written' = IF stream
                           THEN EventStream(Append(written.events, ErrorEvent(outcome.error)), TRUE)
                           ELSE Json(500, ErrorBody("api_error", outcome.error))
             /\ at' = "done"
             /\ UNCHANGED <<backendCalls, claudeResponse, replayIndex, sliceI>>
      [] outcome.kind = "call" ->
             /\ backendCalls' = Append(backendCalls, outcome.call)
             /\ at' = outcome.call.kind
             /\ written' = IF stream THEN EventStream(<< >>, FALSE) ELSE written
             /\ UNCHANGED <<claudeResponse, replayIndex, sliceI>>
      [] OTHER ->
             /\ claudeResponse' = outcome.message
             /\ written' = IF stream THEN EventStream(<< >>, FALSE)
                           ELSE Json(200, MessageBody(outcome.message))
             /\ at' = IF stream THEN "replay" ELSE "done"
             /\ replayIndex' = 0
             /\ sliceI' = 0
             /\ UNCHANGED backendCalls

\* POST /v1/messages up to the first external call.
PostMessages(request) ==
    /\ at = "idle"
    /\ receivedRequest' = request
    /\ LET finalModel == RouteModel(request, routerConfig)
           modelConfig == GetModelConfig(finalModel)
           routed == [request EXCEPT
                        !.model = finalModel,
                        !.max_tokens = IF @ > modelConfig.maxTokens
                                       THEN modelConfig.maxTokens ELSE @]
       IN  IF request.estimate.throws
           THEN /\ claudeRequest' = request
                /\ written' = Json(500, ErrorBody("api_error", "estimator"))
                /\ at' = "done"
                /\ UNCHANGED <<backendCalls, claudeResponse, replayIndex, sliceI, cache>>
           ELSE IF request.model = "" \/ request.messages = << >> \/ request.max_tokens = 0
           THEN /\ claudeRequest' = request
                /\ written' = Json(400, ErrorBody("invalid_request_error", "fields"))
                /\ at' = "done"
                /\ UNCHANGED <<backendCalls, claudeResponse, replayIndex, sliceI, cache>>
           ELSE IF modelConfig = NoModelConfig
           THEN /\ claudeRequest' = [request EXCEPT !.model = finalModel]
                /\ written' = Json(400, ErrorBody("invalid_request_error", "model"))
                /\ at' = "done"
                /\ UNCHANGED <<backendCalls, claudeResponse, replayIndex, sliceI, cache>>
           ELSE /\ claudeRequest' = routed
                /\ Deliver(CreateMessage(routed, modelConfig, request.stream),
                           request.stream)
                /\ cache' = CacheAfterCreate(routed)
    /\ UNCHANGED <<routerConfig, backendAnswer>>

\* callAliyunSearch: fetch resolves with the headers of the provider's
\* response and the 60 second timer is cleared; the body is awaited next,
\* with response.json() when the status is ok, with response.text() when not.
SearchResponds(ok) ==
    /\ at = "search"
    /\ at' = IF ok THEN "search_body" ELSE "search_text"
    /\ UNCHANGED <<routerConfig, backendAnswer, receivedRequest, claudeRequest, backendCalls,
                   claudeResponse, written, replayIndex, sliceI>>

\* response.json() resolves with the body, or rejects or resolves with a body
\* without result.search_result (callAliyunSearch returns null or createMessage
\* throws); callAliyunSearch stores the results in the cache before it returns
\* them.
SearchReturns(result) ==
    /\ at = "search_body"
    /\ Deliver(IF result.ok
               THEN Returns(SearchResponse(claudeRequest,
                                           backendCalls[Len(backendCalls)].query,
                                           result))
               ELSE Throws("Both API call and fallback failed"),
               claudeRequest.stream)
    /\ IF result.ok
       THEN /\ cache' = StoreResults(cache, result.search_result, 1, now)
            /\ cleanupTimer' = (cleanupTimer \/ result.search_result # << >>)
            /\ lastWrite' = RecordWrites(lastWrite, result.search_result, 1, now)
       ELSE UNCHANGED <<cache, cleanupTimer, lastWrite>>
    /\ UNCHANGED <<routerConfig, backendAnswer, receivedRequest, claudeRequest>>

\* response.text() of a response whose status is not ok has resolved:
\* callAliyunSearch throws the HTTP error, catches it and returns null, and
\* createMessage throws.
SearchRefused ==
    /\ at = "search_text"
    /\ Deliver(Throws("Both API call and fallback failed"), claudeRequest.stream)
    /\ UNCHANGED <<routerConfig, backendAnswer, receivedRequest, claudeRequest>>

\* fetch rejects: callAliyunSearch catches the error and returns null, and
\* createMessage throws.
SearchFails ==
    /\ at = "search"
    /\ Deliver(Throws("Both API call and fallback failed"), claudeRequest.stream)
    /\ UNCHANGED <<routerConfig, backendAnswer, receivedRequest, claudeRequest>>

\* The provider has not sent its headers when the 60 second timer fires: the
\* fetch is aborted, callAliyunSearch catches the AbortError and returns null,
\* and createMessage throws as for any other failure of the search.
SearchTimesOut ==
    /\ at = "search"
    /\ Deliver(Throws("Both API call and fallback failed"), claudeRequest.stream)
    /\ UNCHANGED <<routerConfig, backendAnswer, receivedRequest, claudeRequest>>

\* A tool result phase that lets the failure of the summarization call fail
\* the request.
SummaryReturns_Throws(result) ==
    /\ at = "summarize"
    /\ LET found == ToolResultSearchResults(claudeRequest) IN
       Deliver(IF result.ok /\ result.text # ""
               THEN Returns(ToolResultResponse(claudeRequest, found.items, result.text))
               ELSE Throws("OpenAI API error: backend"),
               claudeRequest.stream)
    /\ UNCHANGED <<routerConfig, backendAnswer, receivedRequest, claudeRequest>>

\* The backend answers the summarization call of the tool result phase, with
\* a text, with none, or with an error; the last two give the fallback text.
SummaryReturns(result) ==
    /\ at = "summarize"
    /\ LET ctx == DetectWebSearchRequest(claudeRequest)
           found == ToolResultSearchResults(claudeRequest)
           formattedResponse == IF result.ok /\ result.text # "" THEN result.text
                                ELSE FallbackResponse(ctx.searchQuery, found.items,
                                                      found.parsed)
       IN  Deliver(Returns(ToolResultResponse(claudeRequest, found.items, formattedResponse)),
                   claudeRequest.stream)
    /\ UNCHANGED <<routerConfig, backendAnswer, receivedRequest, claudeRequest>>

\* The backend answers the one-shot call.
OneShotReturns(openAIResponse) ==
    /\ at = "one_shot"
    /\ backendAnswer' = openAIResponse
    /\ LET converted == ConvertOpenAIToClaude(openAIResponse, claudeRequest.model) IN
       Deliver(IF converted.ok THEN Returns(converted.message)
               ELSE Throws("OpenAI API error: No choices in OpenAI response"),
               FALSE)
    /\ UNCHANGED <<routerConfig, receivedRequest, claudeRequest>>

\* The one-shot call fails.
OneShotFails ==
    /\ at = "one_shot"
    /\ Deliver(Throws("OpenAI API error: backend"), FALSE)
    /\ UNCHANGED <<routerConfig, backendAnswer, receivedRequest, claudeRequest>>

\* The streaming call of the generic path returns the backend stream, and
\* convertOpenAIStreamToClaude (Part II) starts to drain it.
StreamReturns ==
    /\ at = "stream"
    /\ at' = "streaming"
    /\ UNCHANGED <<routerConfig, backendAnswer, receivedRequest, claudeRequest, backendCalls,
                   claudeResponse, written, replayIndex, sliceI>>

\* The messages of the Errors the backend fails with.
BackendErrors == {"backend"}

\* The streaming call is rejected with an Error: streamMessage catches it and
\* yields an error event with the Error's message, which the handler writes.
StreamFails(message) ==
    /\ at = "stream"
    /\ written' = EventStream(Append(written.events, ErrorEvent(message)), FALSE)
    /\ at' = "ending"
    /\ UNCHANGED <<routerConfig, backendAnswer, receivedRequest, claudeRequest, backendCalls,
                   claudeResponse, replayIndex, sliceI>>

\* The backend stream breaks with an Error while it is drained: the
\* reconstructor ends with it, streamMessage catches it and yields the error
\* event, which the handler writes.
DrainFails(message) ==
    /\ at = "streaming"
    /\ pc = "collect"
    /\ pc' = "thrown"
    /\ written' = EventStream(Append(written.events, ErrorEvent(message)), FALSE)
    /\ at' = "ending"
    /\ UNCHANGED <<allChunks, events, hasStarted, hasFinished, totalInputTokens,
                   totalOutputTokens, activeContentBlocks, toolCallsBuffer, chunkIdx,
                   nextBlockIndex, toolIdx, sliceText, sliceAt>>
    /\ UNCHANGED <<routerConfig, backendAnswer, receivedRequest, claudeRequest, backendCalls,
                   claudeResponse, replayIndex, sliceI>>

\* The streams the backend answers the streaming call with: no chunk, a text
\* with and without a finish signal, a text with usage, a tool call in
\* fragments, a text and a call, and two with a chunk that has no choices.
BackendStreams ==
    { << >>,
      << TextChunk(Text_Hi), FinishChunk("stop") >>,
      << TextChunk(Text_Hi), TextChunk(Text_Hi) >>,
      << TextChunk(Text_Hi), FinishChunk("stop"), UsageChunk(5, 7) >>,
      << ToolChunk(<< ToolCallDelta(0, "call_a", "get_weather", << >>) >>, ""),
         ToolChunk(<< ToolCallDelta(0, "", "", Frag_open) >>, ""),
         ToolChunk(<< ToolCallDelta(0, "", "", Frag_close) >>, "tool_calls") >>,
      << TextChunk(Text_Hi),
         ToolChunk(<< ToolCallDelta(0, "call_c", "Bash", << >>) >>, ""),
         FinishChunk("tool_calls") >>,
      << ToolChunk(<< ToolCallDelta(0, "call_d", "toString", << >>) >>, "tool_calls") >>,
      << ToolChunk(<< ToolCallDelta(0, "call_e", "constructor", << >>) >>, "tool_calls") >>,
      << NoChoicesChunk >>,
      << TextChunk(Text_Hi), NoChoicesChunk >> }

\* The chunks that can arrive next, given those that have.
NextChunks ==
    { stream[Len(allChunks) + 1] :
        stream \in { t \in BackendStreams :
                       /\ Len(t) > Len(allChunks)
                       /\ SubSeq(t, 1, Len(allChunks)) = allChunks } }

\* One run of convertOpenAIStreamToClaude for the handler: a chunk of the
\* backend stream arrives, the stream ends, or the generator is resumed after
\* a yield.
Reconstruct ==
    \/ \E chunk \in NextChunks : Collect(chunk)
    \/ allChunks \in BackendStreams /\ EndOfStream
    \/ ProcessChunk
    \/ AfterMessageStart
    \/ AfterTextStart
    \/ AfterTextDelta
    \/ AfterChunks
    \/ AfterTextClose
    \/ TextSlice
    \/ TextStop
    \/ ToolStart
    \/ JsonSlice
    \/ ToolStop
    \/ MessageDelta
    \/ MessageStop

\* for await (const chunk of claudeAdapter.streamMessage(...)) res.write(chunk):
\* the event a run of the reconstructor yields is written; when the run throws,
\* streamMessage catches the Error and yields the error event with its
\* message, which is written; when the run returns without a yield, the
\* handler ends the response in the same run.
Streaming ==
    /\ at = "streaming"
    /\ Reconstruct
    /\ LET yielded == SubSeq(events', Len(events) + 1, Len(events'))
           thrown == pc' = "thrown"
           message == IF pc = "text" THEN NotAFunctionMessage ELSE NoChoicesMessage
           finished == pc' = "done" /\ yielded = << >>
       IN  /\ written' = EventStream(written.events \o yielded
                                       \o (IF thrown THEN << ErrorEvent(message) >>
                                           ELSE << >>),
                                     finished)
           /\ at' = CASE thrown -> "ending"
                      [] finished -> "done"
                      [] OTHER -> "streaming"
    /\ UNCHANGED <<routerConfig, backendAnswer, receivedRequest, claudeRequest, backendCalls,
                   claudeResponse, replayIndex, sliceI>>

\* The generator of streamMessage returns after its last event is written:
\* res.end().
StreamEnd ==
    /\ at = "ending" \/ (at = "streaming" /\ pc = "done")
    /\ written' = [written EXCEPT !.ended = TRUE]
    /\ at' = "done"
    /\ UNCHANGED <<routerConfig, backendAnswer, receivedRequest, claudeRequest, backendCalls,
                   claudeResponse, replayIndex, sliceI>>


\* The message_delta of convertClaudeToStream with the stop reason of a
\* finished turn, whatever the message says.
ReplayMessageDelta_EndTurn(message) ==
    [type |-> "message_delta", stop_reason |-> "end_turn",
     usage |-> [output_tokens |-> 0]]

\* The message_delta of convertClaudeToStream.
ReplayMessageDelta(message) ==
    [type |-> "message_delta", stop_reason |-> message.stop_reason,
     usage |-> message.usage]

\* The text convertClaudeToStream slices for a block and the size of its
\* slices; a block of another type has no deltas.
ReplayText(block) ==
    CASE block.type = "text" -> block.text
      [] block.type = "server_tool_use" -> StringifyQuery(block.input)
      [] OTHER -> ""

ReplayStep(block) == IF block.type = "text" THEN 10 ELSE 5

\* convertClaudeToStream: message_start.
ReplayStart ==
    /\ at = "replay"
    /\ written' = EventStream(Append(written.events, MessageStartEvent), FALSE)
    /\ replayIndex' = 0
    /\ at' = "replay_block"
    /\ UNCHANGED <<routerConfig, backendAnswer, receivedRequest, claudeRequest, backendCalls, claudeResponse, sliceI>>

\* The content_block_start of the next block.
ReplayBlockStart ==
    /\ at = "replay_block"
    /\ replayIndex < Len(claudeResponse.content)
    /\ written' = EventStream(Append(written.events,
                                     ContentBlockStart(replayIndex, claudeResponse.content[replayIndex + 1])),
                              FALSE)
    /\ sliceI' = 0
    /\ at' = "replay_delta"
    /\ UNCHANGED <<routerConfig, backendAnswer, receivedRequest, claudeRequest, backendCalls, claudeResponse, replayIndex>>

\* One pass of a slicing loop, up to its delay.
ReplayDelta ==
    /\ at = "replay_delta"
    /\ LET block == claudeResponse.content[replayIndex + 1]
           chunk == Slice(ReplayText(block), sliceI, ReplayStep(block))
       IN  /\ sliceI < Len(ReplayText(block))
           /\ written' = EventStream(Append(written.events,
                                            IF block.type = "text"
                                            THEN TextDelta(replayIndex, chunk)
                                            ELSE InputJsonDelta(replayIndex, chunk)),
                                     FALSE)
           /\ sliceI' = sliceI + ReplayStep(block)
    /\ UNCHANGED <<routerConfig, backendAnswer, receivedRequest, at, claudeRequest, backendCalls, claudeResponse, replayIndex>>

\* The content_block_stop of the block.
ReplayBlockStop ==
    /\ at = "replay_delta"
    /\ sliceI >= Len(ReplayText(claudeResponse.content[replayIndex + 1]))
    /\ written' = EventStream(Append(written.events, ContentBlockStop(replayIndex)), FALSE)
    /\ replayIndex' = replayIndex + 1
    /\ at' = "replay_block"
    /\ UNCHANGED <<routerConfig, backendAnswer, receivedRequest, claudeRequest, backendCalls, claudeResponse, sliceI>>

\* After the last block: message_delta.
ReplayFinish ==
    /\ at = "replay_block"
    /\ replayIndex >= Len(claudeResponse.content)
    /\ written' = EventStream(Append(written.events, ReplayMessageDelta(claudeResponse)),
                              FALSE)
    /\ at' = "replay_stop"
    /\ UNCHANGED <<routerConfig, backendAnswer, receivedRequest, claudeRequest, backendCalls, claudeResponse, replayIndex, sliceI>>

\* message_stop, the last yield of convertClaudeToStream.
ReplayStop ==
    /\ at = "replay_stop"
    /\ written' = EventStream(Append(written.events, MessageStopEvent), FALSE)
    /\ at' = "replay_end"
    /\ UNCHANGED <<routerConfig, backendAnswer, receivedRequest, claudeRequest, backendCalls, claudeResponse, replayIndex, sliceI>>

\* The generator has returned: res.end().
ReplayEnd ==
    /\ at = "replay_end"
    /\ written' = [written EXCEPT !.ended = TRUE]
    /\ at' = "done"
    /\ UNCHANGED <<routerConfig, backendAnswer, receivedRequest, claudeRequest, backendCalls, claudeResponse, replayIndex, sliceI>>

\* ------------------------------------------------------------------------
\* Part III : messages endpoint, the requests and the answers of the model
\* ------------------------------------------------------------------------

MaxBlocks == 2

\* The content blocks the messages of the model are made of.
Blocks ==
    { TextBlock("hello"),
      ToolUseParam("toolu_1", "get_weather", LocationObject(San)),
      ToolResultBlock("toolu_1", StringContent("sunny")),
      ToolResultBlock("toolu_2", BlocksContent(<< TextBlock("rain") >>)),
      ToolResultBlock("toolu_3", StringContent(WebSearchResultText)) }

BlockListsOfLen(n) == [1..n -> Blocks]

Contents ==
    { StringContent("hi") }
    \cup { BlocksContent(blocks) : blocks \in UNION { BlockListsOfLen(n) : n \in 1..MaxBlocks } }

BaseRequest ==
    [ model |-> "claude-3-opus-20240229", max_tokens |-> 100,
      messages |-> << Message("user", StringContent("hi")) >>,
      system |-> NoSystem, tools |-> << >>, stream |-> FALSE, thinking |-> FALSE,
      estimate |-> Estimate(10) ]

\* The requests that differ in what routing looks at.
RoutingRequests ==
    { [BaseRequest EXCEPT !.model = model, !.tools = tools, !.system = system,
                          !.estimate = Estimate(tokens), !.thinking = thinking] :
        model \in {"claude-3-opus-20240229", "claude-3-5-haiku-20241022"},
        tools \in {<< >>, << WebSearchTool >>},
        system \in {NoSystem, SystemText(WebSearchIndicator)},
        tokens \in {10, 55000, 60000, 70000},
        thinking \in BOOLEAN }

\* The requests that are rejected or whose routing fails.
FailingRequests ==
    { [BaseRequest EXCEPT !.estimate = EstimateThrows],
      [BaseRequest EXCEPT !.estimate = EstimateThrows, !.stream = TRUE],
      [BaseRequest EXCEPT !.system = SystemNumber],
      [BaseRequest EXCEPT !.model = ""],
      [BaseRequest EXCEPT !.max_tokens = 0],
      [BaseRequest EXCEPT !.messages = << >>] }

\* The requests that differ in max_tokens and in the model they are routed to.
LimitRequests ==
    { [BaseRequest EXCEPT !.max_tokens = max_tokens, !.thinking = thinking,
                          !.estimate = Estimate(tokens), !.stream = stream] :
        max_tokens \in {100, 5000, 10000, 20000},
        thinking \in BOOLEAN,
        tokens \in {10, 70000},
        stream \in BOOLEAN }

\* The requests that differ in their message, with and without the web search
\* tool, streamed or not.
MessageRequests ==
    { [BaseRequest EXCEPT !.messages = << Message(role, content) >>,
                          !.tools = tools, !.stream = stream] :
        role \in {"user", "assistant"},
        content \in Contents,
        tools \in {<< >>, << WebSearchTool >>, << FunctionTool >>},
        stream \in BOOLEAN }

\* Tool results with the marker: one whose array part is no JSON, one with
\* no array part, one with two links of one host.
MalformedResultText == "Web search results for query: weather [oops]"
TwoLinks == << Link("a", "http://h/x"), Link("c", "http://h/y") >>
TwoLinksResultText ==
    "Web search results for query: w " \o Serialize(TwoLinks)
BareResultText == "Web search results for query: weather"

\* The conversations around a web search tool result: the result in the last
\* user turn (well formed, malformed, without array part, as an array of
\* blocks), and the result in an earlier user turn.
SearchConversations ==
    { << Message("user", BlocksContent(<< ToolResultBlock("toolu_3", StringContent(text)) >>)) >> :
        text \in {MalformedResultText, BareResultText, TwoLinksResultText} }
    \cup
    { << Message("user", BlocksContent(<<
            ToolResultBlock("toolu_3", BlocksContent(<< TextBlock(WebSearchResultText) >>)) >>)) >>,
      << Message("user", BlocksContent(<<
            ToolResultBlock("toolu_3", StringContent(WebSearchResultText)) >>)),
         Message("assistant", StringContent("It is sunny.")),
         Message("user", StringContent("thanks")) >> }

SearchFlowRequests ==
    { [BaseRequest EXCEPT !.messages = messages, !.tools = tools, !.stream = stream] :
        messages \in SearchConversations,
        tools \in {<< >>, << WebSearchTool >>},
        stream \in BOOLEAN }

Requests == FailingRequests \cup LimitRequests \cup MessageRequests \cup SearchFlowRequests

\* The answers of the search provider.
SearchResults ==
    { [ok |-> FALSE, search_result |-> << >>, search_count |-> 0],
      [ok |-> TRUE, search_result |-> << >>, search_count |-> 0],
      [ok |-> TRUE, search_result |-> << >>, search_count |-> 3],
      [ok |-> TRUE, search_result |-> << [title |-> "a", link |-> "b"] >>,
       search_count |-> 0] }

\* Results of the search provider with their content: two pages for the
\* link http://h/x and one, without content, for http://h/y.
PageSun == [title |-> "a", link |-> "http://h/x", content |-> "sun"]
PageRain == [title |-> "other", link |-> "http://h/x", content |-> "rain"]
PageBare == [title |-> "c", link |-> "http://h/y"]

\* The answers of the search provider to the conversations of the search
\* flow: a failure, one result, two results that share a link, two results
\* with different links.
ProviderAnswers ==
    { [ok |-> FALSE, search_result |-> << >>, search_count |-> 0],
      [ok |-> TRUE, search_result |-> << PageSun >>, search_count |-> 3],
      [ok |-> TRUE, search_result |-> << PageSun, PageRain >>, search_count |-> 0],
      [ok |-> TRUE, search_result |-> << PageRain, PageBare >>, search_count |-> 0] }

\* The links the provider answers with.
PageLinks == { "http://h/x", "http://h/y" }

\* A conversation that asks for a search and one that brings back the tool
\* result with the links http://h/x and http://h/y.
InitialSearchRequest == [BaseRequest EXCEPT !.tools = << WebSearchTool >>]
ToolResultRequest ==
    [BaseRequest EXCEPT
        !.messages = << Message("user", BlocksContent(<<
                           ToolResultBlock("toolu_3", StringContent(TwoLinksResultText)) >>)) >>,
        !.tools = << WebSearchTool >>]

SearchRequests == { InitialSearchRequest, ToolResultRequest }

\* ------------------------------------------------------------------------
\* Part I : batch engine, the steps that call the adapter
\* ------------------------------------------------------------------------

\* request.body of an entry of a kind whose model has a mapping.
EntryBody(kind) ==
    CASE kind = "search" -> InitialSearchRequest
      [] kind = "tool_result" -> ToolResultRequest
      [] OTHER -> BaseRequest

\* What the call of createMessage for an entry of each kind looks up, which
\* is Lookups(EntryBody(kind)): the tool result of ToolResultRequest is the
\* serialization of TwoLinks and is parsed back to them, the body of
\* the other kinds brings no tool result.
EntryLookups(kind) ==
    IF kind = "tool_result"
    THEN [items |-> TwoLinks, parsed |-> TRUE]
    ELSE [items |-> << >>, parsed |-> FALSE]

\* The cache after a run of the worker that left job b: when the run ended in
\* a call of createMessage, the call has run up to its first external call
\* and, in the tool result phase, has looked the results up.
WorkerStarts(entries, b, t) ==
    IF b.worker = "awaiting" /\ b.pos \in b.pending
    THEN LET looked == EntryLookups(b.requests[b.pos].kind) IN
         AfterGets(entries, looked.items, looked.parsed, 1, t)
    ELSE entries

\* POST /, the handler: the job is stored under a fresh id and the worker is
\* started before the response is built.
PostBatch(body) ==
    IF ~ body.is_array
    THEN /\ response' = [op |-> "create", code |-> 400, type |-> "invalid_request_error"]
         /\ UNCHANGED <<batches, cache>>
    ELSE LET id == Cardinality(DOMAIN batches) + 1
             batch == ProcessBatchAsync(NewBatch(id, body.requests))
         IN  /\ batches' = [j \in DOMAIN batches \cup {id} |->
                                IF j = id THEN batch ELSE batches[j]]
             /\ cache' = WorkerStarts(cache, batch, now)
             /\ response' = [op |-> "create", code |-> 200, id |-> id,
                             body |-> Metadata(batch)]

\* POST /, while fewer than MaxJobs jobs have been submitted.
CreateBatch(body) ==
    /\ Cardinality(DOMAIN batches) < MaxJobs
    /\ PostBatch(body)

\* What createMessage got from the search provider when it returns (ok) or
\* throws for an entry of a kind; only the initial phase of the web search
\* flow calls the provider.
NoSearch == [ok |-> FALSE, search_result |-> << >>, search_count |-> 0]

WorkerAnswers(kind, ok) ==
    IF kind = "search" THEN { a \in ProviderAnswers : a.ok = ok } ELSE { NoSearch }

\* The outstanding createMessage call of job id, entry i, returns or throws
\* and the worker runs on to its next suspension.  The call of the initial
\* search phase returns with the provider's results stored in the cache; the
\* call of the tool result phase returns whatever the backend does (a failed
\* summarization gives the fallback text).
BackendReturns(id, i, ok) ==
    /\ id \in DOMAIN batches
    /\ i \in batches[id].pending
    /\ LET kind == batches[id].requests[i].kind
           resumed == ResumeWorker(batches[id], i, ok)
       IN  /\ kind = "tool_result" => ok
           /\ \E aliyunResult \in WorkerAnswers(kind, ok) :
                 LET search_result == aliyunResult.search_result
                     stored == StoreResults(cache, search_result, 1, now)
                 IN  /\ cache' = WorkerStarts(stored, resumed, now)
                     /\ cleanupTimer' = (cleanupTimer \/ search_result # << >>)
                     /\ lastWrite' = RecordWrites(lastWrite, search_result, 1, now)
           /\ batches' = [batches EXCEPT ![id] = resumed]
    /\ response' = NoResponse

\* The answers of the backend to the summarization call.
Summaries ==
    { [ok |-> TRUE, text |-> "It is sunny."],
      [ok |-> TRUE, text |-> ""],
      [ok |-> FALSE, text |-> ""] }

\* The tool calls of a backend answer: arguments that are JSON and arguments
\* that are not.
CallNYC == [id |-> "call_1", name |-> "get_weather", arguments |-> Frag_open \o Frag_close]
CallCut == [id |-> "call_2", name |-> "get_weather", arguments |-> Frag_cut]

\* The answers of the backend to the one-shot call.
OpenAIResponses ==
    { OpenAIResponse(FALSE, NoContent, << >>, "", NoUsage) }
    \cup { OpenAIResponse(TRUE, content, tool_calls, finish_reason, Usage(5, 7)) :
             content \in { NoContent, TextContent(""), TextContent("Hello"),
                           PartsContent(<< [type |-> "text", text |-> "Hel"],
                                           [type |-> "image_url", text |-> ""],
                                           [type |-> "text", text |-> "lo"] >>),
                           PartsContent(<< [type |-> "image_url", text |-> ""] >>) },
             tool_calls \in { << >>, << CallNYC >>, << CallNYC, CallCut >> },
             finish_reason \in { "", "stop", "length", "tool_calls", "content_filter",
                                 "function_call" } }

InitStream ==
    /\ pc = "collect"
    /\ allChunks = << >>
    /\ events = << >>
    /\ hasStarted = FALSE
    /\ hasFinished = FALSE
    /\ totalInputTokens = 0
    /\ totalOutputTokens = 0
    /\ activeContentBlocks = {}
    /\ toolCallsBuffer = << >>
    /\ chunkIdx = 0
    /\ nextBlockIndex = 0
    /\ toolIdx = 0
    /\ sliceText = << >>
    /\ sliceAt = 0

\* ------------------------------------------------------------------------
\* Part IV : the ephemeral cache (MemoryStore)
\* ------------------------------------------------------------------------
MaxTicks == 4

StoreKeys == {"k1", "k2"}
StoreValues == {"v1", "v2"}
TTLs == {0, 1000}

\* A set that leaves a stopped timer stopped.
CacheSet_NoRestart(key, value, ttl) ==
    /\ cache' = MapSet(cache, key, value, now + ttl)
    /\ returned' = Returned("set", key, Undefined)
    /\ lastWrite' = [lastWrite EXCEPT ![key] = Wrote(value, now + ttl)]
    /\ UNCHANGED <<now, cleanupTimer>>

\* set(key, value, ttl)
CacheSet(key, value, ttl) ==
    /\ cache' = MapSet(cache, key, value, now + ttl)
    /\ cleanupTimer' = TRUE
    /\ returned' = Returned("set", key, Undefined)
    /\ lastWrite' = [lastWrite EXCEPT ![key] = Wrote(value, now + ttl)]
    /\ UNCHANGED now

\* A get that hands out whatever entry the map holds.
CacheGet_NoExpiry(key) ==
    /\ returned' = Returned("get", key,
                            IF CachePos(cache, key) = 0 THEN Undefined
                            ELSE cache[CachePos(cache, key)].value)
    /\ UNCHANGED <<cache, cleanupTimer, now, lastWrite>>

\* get(key)
CacheGet(key) ==
    LET j == CachePos(cache, key) IN
    /\ IF j = 0
       THEN /\ returned' = Returned("get", key, Undefined)
            /\ UNCHANGED cache
       ELSE IF now > cache[j].expireTime
       THEN /\ cache' = MapDelete(cache, key)
            /\ returned' = Returned("get", key, Undefined)
       ELSE /\ returned' = Returned("get", key, cache[j].value)
            /\ UNCHANGED cache
    /\ UNCHANGED <<cleanupTimer, now, lastWrite>>

\* delete(key)
CacheDelete(key) ==
    /\ cache' = MapDelete(cache, key)
    /\ returned' = Returned("delete", key, CachePos(cache, key) # 0)
    /\ lastWrite' = [lastWrite EXCEPT ![key] = NoWrite]
    /\ UNCHANGED <<cleanupTimer, now>>

\* has(key): get(key) !== undefined
CacheHas(key) ==
    LET j == CachePos(cache, key) IN
    /\ cache' = IF j # 0 /\ now > cache[j].expireTime THEN MapDelete(cache, key) ELSE cache
    /\ returned' = Returned("has", key, j # 0 /\ ~ (now > cache[j].expireTime))
    /\ UNCHANGED <<cleanupTimer, now, lastWrite>>

\* ttl(key)
CacheTtl(key) ==
    LET j == CachePos(cache, key)
        remaining == cache[j].expireTime - now
    IN  /\ returned' = Returned("ttl", key,
                                IF j = 0 THEN -1
                                ELSE IF remaining > 0 THEN remaining ELSE -1)
        /\ UNCHANGED <<cache, cleanupTimer, now, lastWrite>>

\* clear()
CacheClear ==
    /\ cache' = << >>
    /\ cleanupTimer' = FALSE
    /\ returned' = Returned("clear", "", Undefined)
    /\ lastWrite' = [k \in StoreKeys |-> NoWrite]
    /\ UNCHANGED now

\* size()
CacheSize ==
    /\ returned' = Returned("size", "", Len(cache))
    /\ UNCHANGED <<cache, cleanupTimer, now, lastWrite>>

\* keys()
CacheKeys ==
    /\ cache' = Valid(cache, now)
    /\ returned' = Returned("keys", "", KeysOf(Valid(cache, now)))
    /\ UNCHANGED <<cleanupTimer, now, lastWrite>>

\* refresh(key)
CacheRefresh(key) ==
    LET j == CachePos(cache, key) IN
    IF j = 0 \/ now > cache[j].expireTime
    THEN /\ returned' = Returned("refresh", key, FALSE)
         /\ UNCHANGED <<cache, cleanupTimer, now, lastWrite>>
    ELSE /\ cache' = MapSet(cache, key, cache[j].value, now + DEFAULT_TTL)
         /\ cleanupTimer' = TRUE
         /\ returned' = Returned("refresh", key, TRUE)
         /\ lastWrite' = [lastWrite EXCEPT ![key] = Wrote(cache[j].value, now + DEFAULT_TTL)]
         /\ UNCHANGED now

\* A sweep that also removes the entries that expire at this very moment.
CleanupExpired_Eager ==
    /\ cleanupTimer
    /\ cache' = SelectSeq(cache, LAMBDA e : now < e.expireTime)
    /\ cleanupTimer' = (cache' # << >>)
    /\ returned' = NoReturn
    /\ UNCHANGED <<now, lastWrite>>

\* The interval timer fires: cleanupExpired().  The model does not keep the
\* phase of the interval: a scheduled timer may fire at any time.
CleanupExpired ==
    /\ cleanupTimer
    /\ cache' = SelectSeq(cache, LAMBDA e : ~ (now > e.expireTime))
    /\ cleanupTimer' = (cache' # << >>)
    /\ returned' = NoReturn
    /\ UNCHANGED <<now, lastWrite>>

\* Time passes: the clock advances by half a second.
Tick ==
    /\ now < MaxTicks * 500
    /\ now' = now + 500
    /\ UNCHANGED <<cache, cleanupTimer, returned, lastWrite>>

\* ------------------------------------------------------------------------
\* Part V : parseSearchResult on its own
\* ------------------------------------------------------------------------
NoResult == [kind |-> "none", queryPart |-> "", linksArray |-> << >>]

\* text is the query followed by the serialized links when has_array, the
\* query alone otherwise.
ParseInput(query, links, has_array) ==
    [query |-> query, links |-> links, has_array |-> has_array,
     text |-> IF has_array THEN query \o Serialize(links) ELSE query,
     called |-> FALSE, result |-> NoResult]

NoParse == ParseInput("", << >>, FALSE)

Queries ==
    { "weather in NYC ", "weather in NYC", "  padded  ", "", "arrays [x] in js",
      "a ] b", "see [docs" }

Links ==
    { Link("a", "b"), Link("[S] x", "u"), Link("a]b", "v"), Link("a[b", "u") }

MaxLinks == 2

LinkListsOfLen(n) == { [j \in 1..n |-> f[j]] : f \in [1..n -> Links] }

LinkLists == UNION { LinkListsOfLen(n) : n \in 0..MaxLinks }

ParseInputs ==
    { ParseInput(query, links, TRUE) : query \in Queries, links \in LinkLists }
        \cup { ParseInput(query, << >>, FALSE) : query \in Queries }

\* parseSearchResult(text)
ParseCall ==
    /\ ~ parseCall.called
    /\ parseCall' = [parseCall EXCEPT !.called = TRUE,
                                      !.result = ParseSearchResult(parseCall.text)]

\* new MemoryStore()
InitStore ==
    /\ cache = << >>
    /\ cleanupTimer = TRUE
    /\ now = 0
    /\ returned = NoReturn
    /\ lastWrite = [k \in StoreKeys |-> NoWrite]

InitScan == parseCall = NoParse

InitBatch ==
    /\ batches = << >>
    /\ response = NoResponse

\* No request has come in.
IdleHandler ==
    /\ at = "idle"
    /\ receivedRequest = NoRequest
    /\ claudeRequest = NoRequest
    /\ backendCalls = << >>
    /\ backendAnswer = NoAnswer
    /\ claudeResponse = NoMessage
    /\ written = NotWritten
    /\ replayIndex = 0
    /\ sliceI = 0

InitMessages ==
    /\ routerConfig = DefaultRouterConfig
    /\ IdleHandler

Init == InitBatch /\ InitStream /\ InitMessages /\ InitStore /\ InitScan

\* The batch engine under every interleaving of requests and worker steps.
Create == (\E body \in Bodies : CreateBatch(body)) /\ UNCHANGED notCreate
Get == (\E id \in JobIds : GetBatch(id)) /\ UNCHANGED notBatch
List == ListBatches /\ UNCHANGED notBatch
Cancel == (\E id \in JobIds : CancelBatch(id)) /\ UNCHANGED notBatch
Results == (\E id \in JobIds : GetResults(id)) /\ UNCHANGED notBatch
Worker ==
    /\ \E id \in JobIds, i \in 1..MaxRequests, ok \in BOOLEAN : BackendReturns(id, i, ok)
    /\ UNCHANGED notWorker

Next ==
    \/ Create
    \/ Get
    \/ List
    \/ Cancel
    \/ Results
    \/ Worker

Spec == Init /\ [][Next]_vars

\* One run of the stream reconstructor over every backend stream of at most
\* MaxChunks chunks.
Drain == (\E chunk \in Chunks : Collect(chunk)) /\ UNCHANGED notStream

NextStream ==
    \/ Drain
    \/ EndOfStream /\ UNCHANGED notStream
    \/ ProcessChunk /\ UNCHANGED notStream
    \/ AfterMessageStart /\ UNCHANGED notStream
    \/ AfterTextStart /\ UNCHANGED notStream
    \/ AfterTextDelta /\ UNCHANGED notStream
    \/ AfterChunks /\ UNCHANGED notStream
    \/ AfterTextClose /\ UNCHANGED notStream
    \/ TextSlice /\ UNCHANGED notStream
    \/ TextStop /\ UNCHANGED notStream
    \/ ToolStart /\ UNCHANGED notStream
    \/ JsonSlice /\ UNCHANGED notStream
    \/ ToolStop /\ UNCHANGED notStream
    \/ MessageDelta /\ UNCHANGED notStream
    \/ MessageStop /\ UNCHANGED notStream

SpecStream == Init /\ [][NextStream]_vars

\* Each outstanding backend call eventually returns or fails.
Fairness ==
    \A id \in JobIds :
        WF_vars(/\ \E i \in 1..MaxRequests, ok \in BOOLEAN : BackendReturns(id, i, ok)
                /\ UNCHANGED notWorker)

\* The steps that matter to a job's progress: submission, cancellation, the
\* worker, and the status poll a client repeats while it waits.  The list and
\* results handlers leave the job store unchanged, as the poll does, so they
\* are stuttering steps for any property of the jobs alone.
NextProgress ==
    \/ Create
    \/ Get
    \/ Cancel
    \/ Worker

FairSpec == Init /\ [][NextProgress]_vars /\ Fairness

\* Several jobs at a time: one job more than MaxJobs, each submitted with one
\* or two entries of which the first reaches the backend, so that the job is
\* still running when the next one is submitted: plain entries, a malformed
\* second entry, and the two phases of a web search.
ConcurrentJobIds == 1..(MaxJobs + 1)

ConcurrentLists ==
    { EntryList(<< "mapped" >>), EntryList(<< "mapped", "mapped" >>),
      EntryList(<< "mapped", "null" >>), EntryList(<< "search", "tool_result" >>) }

CreateConcurrent ==
    /\ Cardinality(DOMAIN batches) <= MaxJobs
    /\ \E r \in ConcurrentLists : PostBatch([is_array |-> TRUE, requests |-> r])
    /\ UNCHANGED notCreate

CancelConcurrent == (\E id \in ConcurrentJobIds : CancelBatch(id)) /\ UNCHANGED notBatch

WorkerConcurrent ==
    /\ \E id \in ConcurrentJobIds, i \in 1..MaxRequests, ok \in BOOLEAN :
          BackendReturns(id, i, ok)
    /\ UNCHANGED notWorker

NextConcurrent ==
    \/ CreateConcurrent
    \/ CancelConcurrent
    \/ WorkerConcurrent

SpecConcurrent == Init /\ [][NextConcurrent]_vars

\* A configuration with every route.
FullRouterConfig ==
    [ default |-> "claude-3-5-sonnet-20241022", longContext |-> "claude-long",
      longContextThreshold |-> Threshold(60000), webSearch |-> "claude-search",
      background |-> "claude-3-5-haiku-20241022", think |-> "claude-think" ]

\* One request to POST /v1/messages, under the default configuration and
\* under one with every route, with every answer of the backend and of the
\* search provider.
InitHandler ==
    /\ InitBatch
    /\ InitStream
    /\ routerConfig \in {DefaultRouterConfig, FullRouterConfig}
    /\ IdleHandler
    /\ InitStore
    /\ InitScan

Post == (\E request \in Requests : PostMessages(request)) /\ UNCHANGED notPost
Search == (\E result \in SearchResults : SearchReturns(result)) /\ UNCHANGED notSearch
Summary == (\E result \in Summaries : SummaryReturns(result)) /\ UNCHANGED notMessages
OneShot ==
    /\ \E openAIResponse \in OpenAIResponses : OneShotReturns(openAIResponse)
    /\ UNCHANGED notMessages

Responds == (\E ok \in BOOLEAN : SearchResponds(ok)) /\ UNCHANGED notMessages
Streamed == StreamReturns /\ UNCHANGED notMessages
StreamRejected ==
    (\E message \in BackendErrors : StreamFails(message)) /\ UNCHANGED notMessages
StreamBreaks ==
    (\E message \in BackendErrors : DrainFails(message)) /\ UNCHANGED notStreaming

NextMessages ==
    \/ Post
    \/ Responds
    \/ Search
    \/ SearchRefused /\ UNCHANGED notMessages
    \/ SearchFails /\ UNCHANGED notMessages
    \/ SearchTimesOut /\ UNCHANGED notMessages
    \/ Summary
    \/ OneShot
    \/ OneShotFails /\ UNCHANGED notMessages
    \/ Streamed
    \/ StreamRejected
    \/ StreamBreaks
    \/ Streaming /\ UNCHANGED notStreaming
    \/ StreamEnd /\ UNCHANGED notMessages
    \/ ReplayStart /\ UNCHANGED notMessages
    \/ ReplayBlockStart /\ UNCHANGED notMessages
    \/ ReplayDelta /\ UNCHANGED notMessages
    \/ ReplayBlockStop /\ UNCHANGED notMessages
    \/ ReplayFinish /\ UNCHANGED notMessages
    \/ ReplayStop /\ UNCHANGED notMessages
    \/ ReplayEnd /\ UNCHANGED notMessages

SpecMessages == InitHandler /\ [][NextMessages]_vars

\* What the code's own scheduling guarantees of one request: a timer that the
\* handler has set fires (the deadline of the search call, the pacing delays
\* of the replay) and the handler runs on from it.  The answer of the search
\* provider and the answers of the backend are the callee's to give, and
\* nothing is assumed of them.
HandlerFairness ==
    /\ WF_vars(SearchTimesOut /\ UNCHANGED notMessages)
    /\ WF_vars((ReplayStart \/ ReplayBlockStart \/ ReplayDelta \/ ReplayBlockStop
                   \/ ReplayFinish \/ ReplayStop \/ ReplayEnd \/ StreamEnd)
                   /\ UNCHANGED notMessages)

FairSpecMessages == InitHandler /\ [][NextMessages]_vars /\ HandlerFairness

\* One response streamed to a client by either of the two converters: one run
\* of the stream reconstructor over a backend stream, or one request to
\* POST /v1/messages with its replay by convertClaudeToStream.
NextSlices ==
    \/ at = "idle" /\ NextStream
    \/ (at # "idle" \/ (pc = "collect" /\ allChunks = << >>)) /\ NextMessages

SpecSlices == Init /\ [][NextSlices]_vars

\* The response is sent and the handler takes up the next request; the cache
\* is the process's and stays as it is.
NextRequest ==
    /\ at = "done"
    /\ at' = "idle"
    /\ receivedRequest' = NoRequest
    /\ claudeRequest' = NoRequest
    /\ backendCalls' = << >>
    /\ backendAnswer' = NoAnswer
    /\ claudeResponse' = NoMessage
    /\ written' = NotWritten
    /\ replayIndex' = 0
    /\ sliceI' = 0
    /\ UNCHANGED routerConfig

\* Time passes: the clock advances by half the default time to live.
HalfHour ==
    /\ now < MaxTicks * (DEFAULT_TTL \div 2)
    /\ now' = now + (DEFAULT_TTL \div 2)
    /\ UNCHANGED <<cache, cleanupTimer, returned, lastWrite>>

\* The conversations of the search flow, one request after the other, and the
\* batch jobs that search, over the one cache of the process, with the sweeps
\* and the clock.
PostSearch == (\E request \in SearchRequests : PostMessages(request)) /\ UNCHANGED notPost
ProviderReturns ==
    (\E result \in ProviderAnswers : SearchReturns(result)) /\ UNCHANGED notSearch

\* One batch job whose entry is one of the two phases of a web search: its
\* worker calls the same adapter over the same cache.
SearchJobs ==
    { [is_array |-> TRUE, requests |-> EntryList(<< kind >>)] : kind \in SearchEntryKinds }

CreateSearchJob ==
    /\ batches = << >>
    /\ \E body \in SearchJobs : PostBatch(body)
    /\ UNCHANGED notCreate

NextSearch ==
    \/ PostSearch
    \/ Responds
    \/ ProviderReturns
    \/ SearchRefused /\ UNCHANGED notMessages
    \/ CreateSearchJob
    \/ Worker
    \/ SearchTimesOut /\ UNCHANGED notMessages
    \/ Summary
    \/ NextRequest /\ UNCHANGED notMessages
    \/ CleanupExpired /\ UNCHANGED notStore
    \/ HalfHour /\ UNCHANGED notStore

SpecSearch == Init /\ [][NextSearch]_vars

\* The routing of one request under every router configuration.
InitRouting ==
    /\ InitBatch
    /\ InitStream
    /\ routerConfig \in RouterConfigs
    /\ IdleHandler
    /\ InitStore
    /\ InitScan

NextRouting ==
    (\E request \in RoutingRequests : PostMessages(request)) /\ UNCHANGED notPost

SpecRouting == InitRouting /\ [][NextRouting]_vars

\* The cache under every sequence of calls, sweeps and clock advances.
StoreSet ==
    /\ \E key \in StoreKeys, value \in StoreValues, ttl \in TTLs : CacheSet(key, value, ttl)
    /\ UNCHANGED notStore
StoreGet == (\E key \in StoreKeys : CacheGet(key)) /\ UNCHANGED notStore
StoreDelete == (\E key \in StoreKeys : CacheDelete(key)) /\ UNCHANGED notStore
StoreHas == (\E key \in StoreKeys : CacheHas(key)) /\ UNCHANGED notStore
StoreTtl == (\E key \in StoreKeys : CacheTtl(key)) /\ UNCHANGED notStore
StoreRefresh == (\E key \in StoreKeys : CacheRefresh(key)) /\ UNCHANGED notStore

NextStore ==
    \/ StoreSet
    \/ StoreGet
    \/ StoreDelete
    \/ StoreHas
    \/ StoreTtl
    \/ CacheClear /\ UNCHANGED notStore
    \/ CacheSize /\ UNCHANGED notStore
    \/ CacheKeys /\ UNCHANGED notStore
    \/ StoreRefresh
    \/ CleanupExpired /\ UNCHANGED notStore
    \/ Tick /\ UNCHANGED notStore

SpecStore == Init /\ [][NextStore]_vars

\* parseSearchResult applied to every input of ParseInputs.
InitParse ==
    /\ InitBatch
    /\ InitStream
    /\ InitMessages
    /\ InitStore
    /\ parseCall \in ParseInputs

NextParse == ParseCall /\ UNCHANGED notScan

SpecParse == InitParse /\ [][NextParse]_vars

\* ------------------------------------------------------------------------
\* Part I : batch engine, properties
\* ------------------------------------------------------------------------
CountsSum(m) == m.processing + m.succeeded + m.errored + m.canceled

ResultTypes == {"succeeded", "errored", "canceled"}

\* C1: in every state, and in every metadata object a handler answers with,
\* processing + succeeded + errored + canceled of a job is the number of
\* requests submitted for it.
C1_CountsSumToRequests ==
    /\ \A id \in DOMAIN batches : CountsSum(batches[id]) = Len(batches[id].requests)
    /\ (response.op \in {"create", "get", "cancel"} /\ response.code = 200)
          => CountsSum(response.body) = Len(batches[response.id].requests)
    /\ response.op = "list"
          => \A id \in DOMAIN response.data :
                CountsSum(response.data[id]) = Len(batches[id].requests)

\* A job of two requests that a worker step and a cancel request have both
\* acted on, seen by a get request.
C1_Witness ==
    /\ response.op = "get"
    /\ response.code = 200
    /\ Len(batches[response.id].requests) = 2
    /\ response.body.errored = 1
    /\ response.body.canceled = 1

\* C3: a results request is answered with the results only for an ended job;
\* for a job that is not ended it is answered with invalid_request_error.
C3_ResultsOnlyWhenEnded ==
    (response.op = "results" /\ response.id \in DOMAIN batches)
       => IF batches[response.id].processing_status = "ended"
          THEN response.code = 200
          ELSE response.code = 400 /\ response.type = "invalid_request_error"

\* C4: a job is created past `validating`, its status then changes only from
\* in_progress to canceling (by an accepted cancel request for it), from
\* in_progress to ended and from canceling to ended; nothing changes an ended
\* job, and a cancel request for an ended job is rejected with
\* invalid_request_error.
C4_StatusTransitions ==
    [][ /\ \A id \in DOMAIN batches :
             LET old == batches[id]
                 new == batches'[id]
             IN  /\ id \in DOMAIN batches'
                 /\ old.processing_status # new.processing_status
                       => <<old.processing_status, new.processing_status>> \in
                             { <<"in_progress", "canceling">>,
                               <<"in_progress", "ended">>,
                               <<"canceling", "ended">> }
                 /\ (new.processing_status = "canceling" /\ old.processing_status # "canceling")
                       => response' = [op |-> "cancel", code |-> 200, id |-> id,
                                       body |-> Metadata(new)]
                 /\ old.processing_status = "ended"
                       => /\ new = old
                          /\ (response'.op = "cancel" /\ response'.id = id)
                                => /\ response'.code = 400
                                   /\ response'.type = "invalid_request_error"
        /\ \A id \in (DOMAIN batches') \ DOMAIN batches :
             /\ NewBatch(id, batches'[id].requests).processing_status = "validating"
             /\ batches'[id].processing_status \in {"in_progress", "ended"}
      ]_vars

\* A cancel request for an ended job that was never canceled has just been
\* rejected.
C4_Witness ==
    /\ response.op = "cancel"
    /\ response.code = 400
    /\ batches[response.id].processing_status = "ended"
    /\ batches[response.id].cancel_initiated_at = NULL
    /\ batches[response.id].succeeded = 1

\* C5: every submitted job eventually has status ended and ended_at set.
C5_EveryJobEnds ==
    \A id \in JobIds :
        (id \in DOMAIN batches)
            ~> (id \in DOMAIN batches
                /\ batches[id].processing_status = "ended"
                /\ batches[id].ended_at # NULL)

\* A job has ended after an errored entry and a canceled one.
C5_Witness ==
    \E id \in DOMAIN batches :
        /\ batches[id].processing_status = "ended"
        /\ batches[id].ended_at # NULL
        /\ batches[id].errored >= 1
        /\ batches[id].canceled >= 1

\* C6: when the call in flight returns for a job whose cancellation has been
\* accepted, the entry in flight is recorded as succeeded or errored and
\* every later entry is recorded as canceled, counted as canceled and no
\* longer as processing, with no backend call made for it.
C6_CooperativeCancel ==
    [][ \A id \in DOMAIN batches :
           \A i \in batches[id].pending :
              (batches[id].cancel_initiated_at # NULL /\ batches'[id] # batches[id])
                 => LET new == batches'[id]
                        n == Len(new.requests)
                    IN  /\ new.pending = {}
                        /\ Len(new.results) = n
                        /\ new.results[i].type \in {"succeeded", "errored"}
                        /\ \A k \in (i + 1)..n :
                              new.results[k] = [custom_id |-> new.requests[k].custom_id,
                                                type |-> "canceled"]
                        /\ new.canceled = batches[id].canceled + (n - i)
                        /\ new.processing = 0
      ]_vars

\* C7: the failure of an entry is recorded as an errored result carrying that
\* entry's custom_id and is counted once; the entries after it are processed
\* all the same, so that a job that has ended after a failure has a record for
\* every entry.
C7_ItemFailureIsLocal ==
    \A id \in DOMAIN batches :
        LET b == batches[id]
            failed == {i \in 1..Len(b.results) : b.results[i].type = "errored"}
        IN  /\ \A i \in failed : b.results[i].custom_id = b.requests[i].custom_id
            /\ b.errored = Cardinality(failed)
            /\ (b.processing_status = "ended" /\ failed # {})
                  => Len(b.results) = Len(b.requests)

\* C8: a job has at most one backend call outstanding, and while the call of
\* entry i is outstanding the outcomes of exactly the entries before i are in
\* the results and in the counts.
C8_OneCallAtATime ==
    \A id \in DOMAIN batches :
        LET b == batches[id] IN
        /\ Cardinality(b.pending) <= 1
        /\ \A i \in b.pending :
              /\ b.pos = i
              /\ Len(b.results) = i - 1
              /\ b.succeeded + b.errored + b.canceled = i - 1
              /\ b.processing = Len(b.requests) - (i - 1)

\* The call of the second entry is outstanding after the first has succeeded.
C8_Witness ==
    \E id \in DOMAIN batches :
        /\ batches[id].pending = {2}
        /\ batches[id].succeeded = 1

\* C9: the results of an ended job are one record per submitted request, in
\* submission order, record i with the custom_id of request i and a type of
\* succeeded, errored or canceled.
C9_ResultsPerRequest ==
    \A id \in DOMAIN batches :
        batches[id].processing_status = "ended"
           => /\ Len(batches[id].results) = Len(batches[id].requests)
              /\ \A i \in 1..Len(batches[id].results) :
                    /\ batches[id].results[i].custom_id = batches[id].requests[i].custom_id
                    /\ batches[id].results[i].type \in ResultTypes

\* C36: with several jobs running, a step that changes a job is a step of
\* that job's own worker (the continuation of its outstanding call) or an
\* accepted cancel request naming its id, and it leaves every other job as it
\* is.
C36_JobsDoNotInterfere ==
    [][ \A id \in DOMAIN batches :
           /\ id \in DOMAIN batches'
           /\ batches'[id] # batches[id]
                 => /\ \A other \in DOMAIN batches \ {id} : batches'[other] = batches[other]
                    /\ \/ /\ response' = NoResponse
                          /\ \E i \in batches[id].pending, ok \in BOOLEAN :
                                batches'[id] = ResumeWorker(batches[id], i, ok)
                       \/ /\ response' = [op |-> "cancel", code |-> 200, id |-> id,
                                          body |-> Metadata(batches'[id])]
                          /\ batches'[id]
                                = [batches[id] EXCEPT !.processing_status = "canceling",
                                                      !.cancel_initiated_at = Timestamp]
      ]_vars

\* Two jobs were running at once; the first was canceled and has ended with
\* one entry succeeded and one canceled, the second still awaits the call of
\* its first entry with nothing counted and no cancellation.
C36_Witness ==
    /\ DOMAIN batches = {1, 2}
    /\ batches[1].processing_status = "ended"
    /\ batches[1].succeeded = 1
    /\ batches[1].canceled = 1
    /\ batches[2].processing_status = "in_progress"
    /\ batches[2].pending = {1}
    /\ batches[2].cancel_initiated_at = NULL
    /\ batches[2].processing = Len(batches[2].requests)
    /\ batches[2].results = << >>
    /\ response.op = "none"

\* The number of result records of job b of the given type.
RecordsOfType(b, type) ==
    Cardinality({i \in 1..Len(b.results) : b.results[i].type = type})

\* C37: an ended job has processing 0 and as many result records as it had
\* requests, the numbers of succeeded, errored and canceled records being the
\* respective counts, whatever the request list, malformed entries included.
C37_EndedJobIsComplete ==
    \A id \in DOMAIN batches :
        LET b == batches[id] IN
        b.processing_status = "ended"
           => /\ b.processing = 0
              /\ Len(b.results) = Len(b.requests)
              /\ RecordsOfType(b, "succeeded") = b.succeeded
              /\ RecordsOfType(b, "errored") = b.errored
              /\ RecordsOfType(b, "canceled") = b.canceled

\* C38: a job in the store is past `validating`, so a cancel request finds it
\* in_progress, canceling or ended; once a cancel request for it has been
\* accepted, cancel_initiated_at stays set and the status is canceling until
\* it is ended, and no step of the worker makes it in_progress again.
C38_CancelingUntilEnded ==
    /\ [](\A id \in DOMAIN batches :
             /\ batches[id].processing_status # "validating"
             /\ batches[id].cancel_initiated_at # NULL
                   => batches[id].processing_status \in {"canceling", "ended"})
    /\ [][ \A id \in DOMAIN batches :
             LET old == batches[id]
                 new == batches'[id]
             IN  /\ (response'.op = "cancel" /\ response'.code = 200 /\ response'.id = id)
                       => /\ old.processing_status \in {"in_progress", "canceling"}
                          /\ new.processing_status = "canceling"
                          /\ new.cancel_initiated_at # NULL
                 /\ old.cancel_initiated_at # NULL
                       => /\ new.cancel_initiated_at = old.cancel_initiated_at
                          /\ new.processing_status \in {"canceling", "ended"}
                          /\ new.processing_status # old.processing_status
                                => /\ new.processing_status = "ended"
                                   /\ response' = NoResponse
      ]_vars

\* A job whose cancellation was accepted while the call of its second entry
\* was outstanding is seen by a status poll: canceling, the mark set, the
\* call still outstanding.
C38_Witness ==
    /\ response.op = "get"
    /\ response.code = 200
    /\ response.body.processing_status = "canceling"
    /\ response.body.cancel_initiated_at # NULL
    /\ response.body.succeeded = 1
    /\ batches[response.id].pending = {2}

\* C10: the metadata a submission is answered with is that of the job as
\* created: validating, every request processing, nothing ended.
C10_SubmissionReturnsJobAsCreated ==
    (response.op = "create" /\ response.code = 200)
       => /\ response.body.processing_status = "validating"
          /\ response.body.processing = Len(batches[response.id].requests)
          /\ response.body.succeeded = 0
          /\ response.body.errored = 0
          /\ response.body.canceled = 0
          /\ response.body.ended_at = NULL

\* ------------------------------------------------------------------------
\* Part II : stream reconstructor, properties
\* ------------------------------------------------------------------------

\* The position after the content_block_delta events of block `index` that
\* start at position p.
RECURSIVE AfterDeltas(_, _, _)
AfterDeltas(evs, p, index) ==
    IF p <= Len(evs) /\ evs[p].type = "content_block_delta" /\ evs[p].index = index
    THEN AfterDeltas(evs, p + 1, index)
    ELSE p

\* The position after the blocks index, index + 1, ... that start at position
\* p, each of them one start, its deltas and one stop; 0 if a block is not of
\* that form or does not carry the index that is due.
RECURSIVE AfterBlocks(_, _, _)
AfterBlocks(evs, p, index) ==
    IF p <= Len(evs) /\ evs[p].type = "content_block_start"
    THEN LET q == AfterDeltas(evs, p + 1, index) IN
         IF /\ evs[p].index = index
            /\ q <= Len(evs)
            /\ evs[q].type = "content_block_stop"
            /\ evs[q].index = index
         THEN AfterBlocks(evs, q + 1, index + 1)
         ELSE 0
    ELSE p

\* message_start, the blocks 0, 1, ..., message_delta, message_stop.
WellFormedStream(evs) ==
    /\ Len(evs) >= 3
    /\ evs[1].type = "message_start"
    /\ LET q == AfterBlocks(evs, 2, 0) IN
       /\ q # 0
       /\ q + 1 = Len(evs)
       /\ evs[q].type = "message_delta"
       /\ evs[q + 1].type = "message_stop"

\* C2: whatever the backend stream was, the events of a finished run are one
\* message_start, then for the block indices 0, 1, ... in turn one
\* content_block_start, the block's deltas and one content_block_stop, then
\* one message_delta and one message_stop.
C2_EventSequence == pc = "done" => WellFormedStream(events)

\* The argument fragments of one delta.tool_calls array for a call index, in
\* order.
RECURSIVE FragmentsInDeltas(_, _, _)
FragmentsInDeltas(tool_calls, index, j) ==
    IF j > Len(tool_calls) THEN << >>
    ELSE (IF tool_calls[j].index = index THEN tool_calls[j].arguments ELSE << >>)
         \o FragmentsInDeltas(tool_calls, index, j + 1)

\* The argument fragments the first n chunks carry for a call index, in
\* arrival order.
RECURSIVE FragmentsReceived(_, _, _)
FragmentsReceived(chunks, index, n) ==
    IF n = 0 THEN << >>
    ELSE FragmentsReceived(chunks, index, n - 1)
         \o (IF chunks[n].has_choice
             THEN FragmentsInDeltas(chunks[n].tool_calls, index, 1)
             ELSE << >>)

\* The call indices the first n chunks carry a delta for.
IndicesReceived(chunks, n) ==
    UNION { IF chunks[i].has_choice
            THEN { chunks[i].tool_calls[j].index : j \in 1..Len(chunks[i].tool_calls) }
            ELSE {} : i \in 1..n }

DeltaPayload(event) ==
    IF event.delta.type = "text_delta" THEN event.delta.text
    ELSE event.delta.partial_json

\* The payloads of the events at positions p .. q - 1, concatenated.
RECURSIVE DeltaConcat(_, _, _)
DeltaConcat(evs, p, q) ==
    IF p >= q THEN << >> ELSE DeltaPayload(evs[p]) \o DeltaConcat(evs, p + 1, q)

\* The content blocks of an event sequence from position p on: for each
\* content_block_start its block, its index, the concatenation of the deltas
\* that follow it and whether a content_block_stop of its index closes it.
RECURSIVE BlocksFrom(_, _)
BlocksFrom(evs, p) ==
    IF p > Len(evs) THEN << >>
    ELSE IF evs[p].type = "content_block_start"
    THEN LET q == AfterDeltas(evs, p + 1, evs[p].index) IN
         << [type |-> evs[p].content_block.type,
             block |-> evs[p].content_block,
             index |-> evs[p].index,
             at |-> p,
             text |-> DeltaConcat(evs, p + 1, q),
             closed |-> /\ q <= Len(evs)
                        /\ evs[q].type = "content_block_stop"
                        /\ evs[q].index = evs[p].index] >>
         \o BlocksFrom(evs, q)
    ELSE BlocksFrom(evs, p + 1)

IsToolUse(b) == b.type = "tool_use"

ToolUseBlocks(evs) == SelectSeq(BlocksFrom(evs, 1), IsToolUse)

HasName(call) == call.name # ""

NamedCalls(buffer) == SelectSeq(buffer, HasName)

\* '{"loc":"NYC"}' parsed.
LocNYC == << [key |-> << "l", "o", "c" >>, value |-> << "N", "Y", "C" >>] >>

\* C11: for every tool-call index the accumulated arguments are the
\* concatenation, in arrival order, of all the argument fragments received
\* for that index, whatever other indices they are interleaved with and
\* whether they arrive before or after the first finish signal; every
\* tool_use block emitted carries the input these arguments give, and the
\* fragments '{"loc' and '":"NYC"}' give a block whose input parses to
\* {loc: NYC}.
C11_ArgumentsConcatenate ==
    /\ pc # "collect" =>
          /\ \A j \in 1..Len(toolCallsBuffer) :
                toolCallsBuffer[j].arguments
                    = FragmentsReceived(allChunks, toolCallsBuffer[j].key, chunkIdx - 1)
          /\ { toolCallsBuffer[j].key : j \in 1..Len(toolCallsBuffer) }
                = IndicesReceived(allChunks, chunkIdx - 1)
    /\ (pc = "done" /\ hasFinished) =>
          LET blocks == ToolUseBlocks(events)
              calls == NamedCalls(toolCallsBuffer)
          IN  /\ Len(blocks) = Len(calls)
              /\ \A k \in 1..Len(blocks) :
                    LET received == FragmentsReceived(allChunks, calls[k].key,
                                                      Len(allChunks))
                    IN  /\ blocks[k].block.name = calls[k].name
                        /\ blocks[k].text = JsonStringify(ToolInput(received))
                        /\ received = Frag_open \o Frag_close =>
                              JsonParse(blocks[k].text) = [ok |-> TRUE, value |-> LocNYC]

\* The fragments of the example, the last of them with the finish signal,
\* have given the get_weather block with input {loc: NYC}.
C11_Witness ==
    /\ pc = "done"
    /\ \E k \in 1..Len(ToolUseBlocks(events)) :
          /\ ToolUseBlocks(events)[k].block.name = "get_weather"
          /\ JsonParse(ToolUseBlocks(events)[k].text) = [ok |-> TRUE, value |-> LocNYC]
    /\ \E i \in 1..Len(allChunks) :
          /\ allChunks[i].has_choice
          /\ Len(allChunks[i].tool_calls) = 1
          /\ allChunks[i].tool_calls[1].arguments = Frag_close

\* The blocks of the events are the streamed text block if text was streamed,
\* then one explanatory text block, then one tool_use block with empty input
\* for each call with a name, in the buffer's order, every block closed before
\* the next starts.
ToolBlocksEmitted(evs, buffer, streamedText) ==
    LET blocks == BlocksFrom(evs, 1)
        calls == NamedCalls(buffer)
        streamed == IF streamedText THEN 1 ELSE 0
    IN  /\ Len(blocks) = streamed + 1 + Len(calls)
        /\ \A k \in 1..Len(blocks) : blocks[k].closed
        /\ \A k \in 1..(streamed + 1) : blocks[k].type = "text"
        /\ ExplanatoryText(calls[1].name).kind = "string"
        /\ blocks[streamed + 1].text = ExplanatoryText(calls[1].name).text
        /\ \A k \in 1..Len(calls) :
              /\ blocks[streamed + 1 + k].type = "tool_use"
              /\ blocks[streamed + 1 + k].block
                    = ToolUseBlock(calls[k].id, calls[k].name)

\* C12: once the chunk sequence is consumed, if a call with a name was
\* accumulated there is exactly one explanatory text block, after the close
\* of the streamed text block and before the tool_use blocks, then exactly
\* one tool_use block per call with a name; a call without a name gets no
\* block.
C12_ToolBlocksPerNamedCall ==
    pc = "done" =>
        IF NamedCalls(toolCallsBuffer) # << >>
        THEN ToolBlocksEmitted(events, toolCallsBuffer, 0 \in activeContentBlocks)
        ELSE ToolUseBlocks(events) = << >>

\* The positions of the events of a type.
EventsOfType(evs, type) == { p \in 1..Len(evs) : evs[p].type = type }

\* The finish reasons the chunks carried, in arrival order.
FinishReasons(chunks) ==
    SelectSeq(chunks, LAMBDA c : c.has_choice /\ c.finish_reason # "")

\* C39: the final message_delta carries stop_reason tool_use only if a call
\* with a name was accumulated, and for a stream that carried no tool call it
\* carries the stop reason the one-shot table gives for the finish reason of
\* the backend.
C39_StopReasonOfStream ==
    pc = "done" =>
        \A p \in EventsOfType(events, "message_delta") :
            /\ events[p].stop_reason = "tool_use" => NamedCalls(toolCallsBuffer) # << >>
            /\ toolCallsBuffer = << >> =>
                  events[p].stop_reason
                      = ConvertOpenAIStopReason(FinishReasons(allChunks)[1].finish_reason)

\* C13: when the backend stream carried tool calls, there is a single
\* message_delta; it carries stop_reason tool_use and the accumulated usage
\* totals, comes after every content_block_stop and is immediately followed
\* by message_stop.
C13_MessageDeltaAfterBlocks ==
    (pc = "done" /\ toolCallsBuffer # << >>) =>
        /\ Cardinality(EventsOfType(events, "message_delta")) = 1
        /\ \A p \in EventsOfType(events, "message_delta") :
              /\ events[p] = MessageDeltaEvent("tool_use", totalInputTokens,
                                               totalOutputTokens)
              /\ \A q \in EventsOfType(events, "content_block_stop") : q < p
              /\ p + 1 = Len(events)
              /\ events[p + 1].type = "message_stop"


\* The deltas the first n chunks carry for a call index, in arrival order.
RECURSIVE DeltasReceived(_, _, _)
DeltasReceived(chunks, index, n) ==
    IF n = 0 THEN << >>
    ELSE DeltasReceived(chunks, index, n - 1)
         \o (IF chunks[n].has_choice
             THEN SelectSeq(chunks[n].tool_calls, LAMBDA d : d.index = index)
             ELSE << >>)

\* The first non-empty string of a sequence of strings, "" if there is none.
FirstNonEmpty(strings) ==
    IF \E j \in 1..Len(strings) : strings[j] # ""
    THEN strings[CHOOSE j \in 1..Len(strings) :
                    /\ strings[j] # ""
                    /\ \A i \in 1..(j - 1) : strings[i] = ""]
    ELSE ""

FirstName(deltas) == FirstNonEmpty([j \in 1..Len(deltas) |-> deltas[j].name])

FirstId(deltas) == FirstNonEmpty([j \in 1..Len(deltas) |-> deltas[j].id])

\* C28: for every tool-call index the accumulated name and id are those of
\* the first fragment received for the index that carried a non-empty name,
\* respectively a non-empty id, later fragments with another name or id do
\* not replace them, and every tool_use block emitted carries that name and
\* that id.
C28_FirstNameAndIdKept ==
    /\ pc # "collect" =>
          \A j \in 1..Len(toolCallsBuffer) :
              LET deltas == DeltasReceived(allChunks, toolCallsBuffer[j].key, chunkIdx - 1)
              IN  /\ FirstName(deltas) # "" => toolCallsBuffer[j].name = FirstName(deltas)
                  /\ FirstId(deltas) # "" => toolCallsBuffer[j].id = FirstId(deltas)
    /\ (pc = "done" /\ hasFinished) =>
          LET blocks == ToolUseBlocks(events)
              calls == NamedCalls(toolCallsBuffer)
          IN  \A k \in 1..Len(blocks) :
                  LET deltas == DeltasReceived(allChunks, calls[k].key, Len(allChunks))
                  IN  /\ blocks[k].block.name = FirstName(deltas)
                      /\ FirstId(deltas) # "" => blocks[k].block.id = FirstId(deltas)

\* The usage of the last of the first n chunks that reported usage, none
\* reported if there is no such chunk.
RECURSIVE LastUsage(_, _)
LastUsage(chunks, n) ==
    IF n = 0 THEN NoUsage
    ELSE IF chunks[n].usage.present THEN chunks[n].usage
    ELSE LastUsage(chunks, n - 1)

\* C29: the totals are the input and output counts of the last chunk that
\* reported usage, a count of zero included, and the final message_delta
\* carries these totals.
C29_UsageIsLastReported ==
    /\ pc # "collect" =>
          LET usage == LastUsage(allChunks, chunkIdx - 1)
          IN  usage.present =>
                  /\ totalInputTokens = usage.prompt_tokens
                  /\ totalOutputTokens = usage.completion_tokens
    /\ \A p \in EventsOfType(events, "message_delta") :
          LET usage == LastUsage(allChunks, Len(allChunks))
          IN  usage.present =>
                  /\ events[p].input_tokens = usage.prompt_tokens
                  /\ events[p].output_tokens = usage.completion_tokens

\* C30: as long as the backend stream is being consumed no event has been
\* emitted, message_start included, and once an event can be emitted the
\* chunk sequence no longer grows.
C30_NothingBeforeLastChunk ==
    /\ [](pc = "collect" => events = << >> /\ ~ hasStarted)
    /\ [][pc # "collect" => allChunks' = allChunks]_vars

\* A text chunk and a tool-call chunk have been consumed, the stream has not
\* ended yet, and nothing has been emitted.
C30_Witness ==
    /\ pc = "collect"
    /\ Len(allChunks) >= 2
    /\ allChunks[1] = TextChunk(Text_Hi)
    /\ allChunks[2].tool_calls # << >>
    /\ events = << >>


\* ------------------------------------------------------------------------
\* Part III : messages endpoint, properties
\* ------------------------------------------------------------------------

\* The handler streams the answer of a web search flow.
StreamedSearchFlow ==
    /\ at # "idle"
    /\ written.stream
    /\ DetectWebSearchRequest(claudeRequest).hasWebSearch

IsBlockStart(event) == event.type = "content_block_start"

\* The payloads of the deltas of block `i` from position p on, concatenated.
RECURSIVE DeltaString(_, _, _)
DeltaString(evs, p, i) ==
    IF p <= Len(evs) /\ evs[p].type = "content_block_delta" /\ evs[p].index = i
    THEN DeltaPayload(evs[p]) \o DeltaString(evs, p + 1, i)
    ELSE ""

\* The position of the content_block_start with index i, 0 if there is none.
StartOf(evs, i) ==
    IF \E p \in 1..Len(evs) : IsBlockStart(evs[p]) /\ evs[p].index = i
    THEN CHOOSE p \in 1..Len(evs) : IsBlockStart(evs[p]) /\ evs[p].index = i
    ELSE 0

\* What the deltas of a block have to spell: the text of a text block, the
\* serialized input of a server_tool_use block, nothing for any other block.
BlockPayload(block) ==
    CASE block.type = "text" -> block.text
      [] block.type = "server_tool_use" -> "{\"query\":\"" \o block.input.query \o "\"}"
      [] OTHER -> ""

\* Where the handler stands while the search call is under way: the headers
\* of the provider's response are awaited, or its body.
SearchWaits == {"search", "search_body", "search_text"}

\* C14: when a streaming request is a web search flow, of either phase, no
\* event is written before the phase has run to completion; the events then
\* written are message_start, for each content block of the resulting
\* message in order (index = position) one start with the block, its deltas
\* and one stop, one message_delta with the stop_reason and the usage of the
\* message, and one message_stop; and the backend is never called with
\* stream: true.
C14_SearchStreamIsReplay ==
    StreamedSearchFlow =>
        /\ \A k \in 1..Len(backendCalls) : backendCalls[k].kind # "stream"
        /\ at \in SearchWaits \cup {"summarize", "replay"} => written.events = << >>
        /\ (at = "done" /\ claudeResponse # NoMessage) =>
              LET evs == written.events
                  content == claudeResponse.content
              IN  /\ WellFormedStream(evs)
                  /\ Len(SelectSeq(evs, IsBlockStart)) = Len(content)
                  /\ \A k \in 1..Len(content) :
                        LET p == StartOf(evs, k - 1) IN
                        /\ p # 0
                        /\ evs[p].content_block = content[k]
                        /\ DeltaString(evs, p + 1, k - 1) = BlockPayload(content[k])
                  /\ evs[Len(evs) - 1].stop_reason = claudeResponse.stop_reason
                  /\ evs[Len(evs) - 1].usage = claudeResponse.usage

\* A streamed initial search phase with a result has been replayed to its
\* end: three blocks, the second with the deltas of its serialized input.
C14_Witness ==
    /\ StreamedSearchFlow
    /\ at = "done"
    /\ written.ended
    /\ Len(backendCalls) = 1
    /\ backendCalls[1].kind = "search"
    /\ Len(claudeResponse.content) = 3
    /\ claudeResponse.content[3].content # << >>
    /\ Len(written.events) > 12

\* The calls that carry a max_tokens: the one-shot call, the streaming call
\* and the summarization call.
HasMaxTokens(call) == call.kind \in {"one_shot", "stream", "summarize"}

Least(S) == CHOOSE x \in S : \A y \in S : x <= y

\* C15: whatever the request and the mapping of the model it is routed to,
\* the max_tokens of a call sent to the backend is the least of the
\* max_tokens the request asked for, the maxTokens of the mapping, and 8192.
C15_EffectiveMaxTokens ==
    \A k \in 1..Len(backendCalls) :
        HasMaxTokens(backendCalls[k]) =>
            backendCalls[k].max_tokens =
                Least({receivedRequest.max_tokens,
                       GetModelConfig(claudeRequest.model).maxTokens,
                       8192})

\* The fixed table of stop reasons.
StopReasonTable ==
    [ stop |-> "end_turn", length |-> "max_tokens", tool_calls |-> "tool_use",
      content_filter |-> "end_turn" ]

ExpectedStopReason(finish_reason) ==
    IF finish_reason \in DOMAIN StopReasonTable THEN StopReasonTable[finish_reason]
    ELSE "end_turn"

\* C16: the message the one-shot converter makes of a backend answer has the
\* stop reason the fixed table gives for the finish reason of the answer:
\* stop -> end_turn, length -> max_tokens, tool_calls -> tool_use,
\* content_filter -> end_turn, and end_turn for any other value and for none.
C16_StopReasonTable ==
    (backendAnswer # NoAnswer /\ backendAnswer.has_choice) =>
        /\ written.body.kind = "message"
        /\ written.body.message.stop_reason =
               ExpectedStopReason(backendAnswer.finish_reason)

\* The one-shot call has been answered with a message that stopped at the
\* token limit, and one that stopped for tool calls has the other reason.
C16_Witness ==
    /\ at = "done"
    /\ Len(backendCalls) = 1
    /\ backendCalls[1].kind = "one_shot"
    /\ written.status = 200
    /\ written.body.kind = "message"
    /\ backendAnswer.finish_reason = "length"
    /\ written.body.message.stop_reason = "max_tokens"

\* The choice of a backend answer has no text: no content, an empty string,
\* or parts without a text.
HasNoText(openAIResponse) ==
    \/ openAIResponse.content.kind = "none"
    \/ openAIResponse.content.kind = "string" /\ openAIResponse.content.text = ""
    \/ /\ openAIResponse.content.kind = "parts"
       /\ \A j \in 1..Len(openAIResponse.content.parts) :
             \/ openAIResponse.content.parts[j].type # "text"
             \/ openAIResponse.content.parts[j].text = ""

\* C17: every message the one-shot converter produces has a content that is
\* not empty; when the choice of the backend has neither text nor tool calls
\* the content is a single empty text block; and a backend answer without a
\* choice gives an error and no message.
C17_ContentNeverEmpty ==
    backendAnswer # NoAnswer =>
        IF backendAnswer.has_choice
        THEN /\ written.body.kind = "message"
             /\ written.body.message.content # << >>
             /\ (HasNoText(backendAnswer) /\ backendAnswer.tool_calls = << >>) =>
                   written.body.message.content = << [type |-> "text", text |-> ""] >>
        ELSE /\ written.body.kind = "error"
             /\ written.status = 500
             /\ claudeResponse = NoMessage

\* The one-shot call has been answered with a choice that had neither text
\* nor tool calls, and the message holds the single empty text block.
C17_Witness ==
    /\ at = "done"
    /\ Len(backendCalls) = 1
    /\ backendCalls[1].kind = "one_shot"
    /\ written.status = 200
    /\ written.body.kind = "message"
    /\ backendAnswer.has_choice
    /\ HasNoText(backendAnswer)
    /\ backendAnswer.tool_calls = << >>
    /\ written.body.message.content = << [type |-> "text", text |-> ""] >>

\* The calls whose messages convertClaudeToOpenAI has made.
IsConverted(call) == call.kind \in {"one_shot", "stream"}

\* The tool_result blocks of the messages of a request.
ToolResultsOf(request) ==
    UNION { { request.messages[m].content.blocks[b] :
                b \in { c \in 1..Len(request.messages[m].content.blocks) :
                          request.messages[m].content.blocks[c].type = "tool_result" } } :
            m \in { n \in 1..Len(request.messages) :
                      ~ request.messages[n].content.is_string } }

\* A backend message is the conversion of a tool_result block.
IsToolMessageOf(message, block) ==
    /\ message.role = "tool"
    /\ message.tool_call_id = block.tool_use_id
    /\ message.content.is_string
    /\ message.content.text = ContentString(block.content)

\* C18: every tool_result block of a message of the request is converted to
\* a backend message with role `tool`, with the content of the block
\* (stringified if it is not a string) and with the tool_use_id of the block
\* as tool_call_id, also when the message carries several tool_result
\* blocks or carries other blocks next to them.
C18_ToolResultsConverted ==
    \A k \in 1..Len(backendCalls) :
        IsConverted(backendCalls[k]) =>
            \A block \in ToolResultsOf(claudeRequest) :
                \E j \in 1..Len(backendCalls[k].messages) :
                    IsToolMessageOf(backendCalls[k].messages[j], block)

\* The threshold of a policy: the configured one, 60000 when none is
\* configured.
PolicyThreshold(policy) ==
    IF policy.longContextThreshold.set THEN policy.longContextThreshold.value ELSE 60000

\* The conditions of the rules, in their fixed order.
WebSearchRule(request) ==
    /\ Len(request.tools) = 1
    /\ request.tools[1].type = "web_search_20250305"
    /\ request.tools[1].name = "web_search"
    /\ request.system.kind = "string"
    /\ Includes(request.system.text, WebSearchIndicator)

LongContextRule(request, policy) == request.estimate.tokens > PolicyThreshold(policy)

BackgroundRule(request) == Includes(request.model, "haiku")

ThinkRule(request) == request.thinking

\* The route of the first rule whose condition holds and whose route is
\* configured, else the default.
FirstMatch(request, policy) ==
    CASE WebSearchRule(request) /\ policy.webSearch # "" -> policy.webSearch
      [] LongContextRule(request, policy) /\ policy.longContext # "" -> policy.longContext
      [] BackgroundRule(request) /\ policy.background # "" -> policy.background
      [] ThinkRule(request) /\ policy.think # "" -> policy.think
      [] OTHER -> policy.default

\* C19: for every combination of rule conditions and configured routes the
\* model a request is routed to is the route of the first rule, in the order
\* web search, long context (estimate strictly greater than the threshold),
\* background, think, whose condition holds and whose route is configured,
\* else the default.
C19_FirstMatchWins ==
    at # "idle" => claudeRequest.model = FirstMatch(receivedRequest, routerConfig)

\* Routing the request runs into an internal error: the token estimator
\* throws, or the reading of the system prompt does.
RoutingFails(request) ==
    request.estimate.throws \/ request.system.kind = "object"

\* C20: a failure of the routing never aborts or rejects the request: when
\* routing runs into an internal error, the token estimator throwing for
\* one, the request is routed to the default model of the policy and goes on
\* to conversion, and no error of the routing reaches the caller.
C20_RoutingFailureIsRecovered ==
    (at # "idle" /\ RoutingFails(receivedRequest)) =>
        /\ claudeRequest.model = routerConfig.default
        /\ Len(backendCalls) = 1
        /\ IsConverted(backendCalls[1])
        /\ backendCalls[1].model = GetModelConfig(routerConfig.default).openaiModelName

\* The request has been handed to the adapter: it was not rejected by the
\* handler.
Handed ==
    /\ at # "idle"
    /\ ~ (written.body.kind = "error"
          /\ written.body.message \in {"estimator", "fields", "model"})

\* The message of the error the handler has reported, "" if it has reported
\* none.
ReportedError ==
    IF written.body.kind = "error" THEN written.body.message
    ELSE IF written.events # << >> /\ written.events[Len(written.events)].type = "error"
    THEN written.events[Len(written.events)].error.message
    ELSE ""

\* The phase the adapter has handled the request in, as its first external
\* call, the message it returned without a call or the error it raised tell:
\* "none" when it failed before it chose a phase.
PhaseHandled ==
    IF backendCalls # << >>
    THEN CASE backendCalls[1].kind = "search" -> "phase1"
           [] backendCalls[1].kind = "summarize" -> "phase2"
           [] OTHER -> "generic"
    ELSE IF claudeResponse # NoMessage THEN "phase2"
    ELSE CASE ReportedError = "Both API call and fallback failed" -> "phase1"
           [] ReportedError \in {"No search results found in tool result request",
                                 "Cannot read properties of undefined (reading 'map')"}
                 -> "phase2"
           [] OTHER -> "none"

\* The last message of the user has a tool_result block whose string content
\* holds the marker.
MarkerInLastUserTurn(request) ==
    \E j \in 1..Len(request.messages) :
        /\ request.messages[j].role = "user"
        /\ \A k \in (j + 1)..Len(request.messages) : request.messages[k].role # "user"
        /\ ~ request.messages[j].content.is_string
        /\ \E b \in 1..Len(request.messages[j].content.blocks) :
              LET block == request.messages[j].content.blocks[b] IN
              /\ block.type = "tool_result"
              /\ block.content.is_string
              /\ Includes(block.content.text, "Web search results for query:")

OneWebSearchTool(request) ==
    /\ Len(request.tools) = 1
    /\ request.tools[1].type = "web_search_20250305"

\* C21: the phase a request is handled in is decided by the request alone:
\* the tool result phase exactly when the last user turn holds a tool_result
\* block with the marker, the initial phase exactly when there is no such
\* block and the tool list is exactly one web search tool, the generic path
\* otherwise.
C21_PhaseFromRequest ==
    Handed =>
        PhaseHandled = IF MarkerInLastUserTurn(receivedRequest) THEN "phase2"
                       ELSE IF OneWebSearchTool(receivedRequest) THEN "phase1"
                       ELSE "generic"

\* The handler has answered with an API error: status 500 with an api_error
\* body, or, the stream headers set, an error event and the end of the
\* stream.
AnsweredApiError ==
    IF written.stream
    THEN /\ written.ended
         /\ written.events # << >>
         /\ written.events[Len(written.events)].type = "error"
    ELSE /\ written.status = 500
         /\ written.body.kind = "error"
         /\ written.body.type = "api_error"

\* The web_search_tool_result blocks of a message.
ResultBlocks(message) ==
    SelectSeq(message.content, LAMBDA b : b.type = "web_search_tool_result")

\* C22: a request of the initial phase whose search has been answered either
\* fails with an API error (an error event once the stream headers are set)
\* and no message, or returns a message whose result list is not empty.
C22_SearchFailureFailsRequest ==
    (Handed /\ PhaseHandled = "phase1" /\ at \notin SearchWaits) =>
        IF claudeResponse = NoMessage
        THEN /\ at = "done"
             /\ AnsweredApiError
             /\ ReportedError = "Both API call and fallback failed"
        ELSE \A k \in 1..Len(ResultBlocks(claudeResponse)) :
                 ResultBlocks(claudeResponse)[k].content # << >>

\* The fallback texts for the tool results of the model with one link and
\* with two links of one host.
OneLinkFallback ==
    "Based on the search results for \"Web search results for query: weather\", "
    \o "here's what I found:\n\n"
    \o "1. **a**\n   URL: b\n   Content: No content available\n\n"
    \o "**Summary:**\nFound 1 relevant sources from unknown. "
    \o "The search covered topics related to: a."

TwoLinksFallback ==
    "Based on the search results for \"Web search results for query: w\", "
    \o "here's what I found:\n\n"
    \o "1. **a**\n   URL: http://h/x\n   Content: No content available\n\n"
    \o "2. **c**\n   URL: http://h/y\n   Content: No content available\n\n"
    \o "**Summary:**\nFound 2 relevant sources from h. "
    \o "The search covered topics related to: a, c."

\* The last tool_result block of the request is the string `text`.
LastToolResultIs(request, text) ==
    LET m == ToolResultMessage(request.messages)
        toolResults == SelectSeq(request.messages[m].content.blocks, IsToolResult)
    IN  /\ m # 0
        /\ toolResults[Len(toolResults)].content = StringContent(text)

\* C23: when the summarization call of the tool result phase fails, the
\* request does not fail: the message returned is a web_search_tool_result
\* block with the parsed results followed by one text block, whose text is
\* the templated fallback of these results (the heading with the query, one
\* numbered entry per result, the summary line with their count).
C23_SummaryFailureFallsBack ==
    [][\A result \in Summaries :
          (SummaryReturns(result) /\ ~ result.ok) =>
              LET found == ToolResultSearchResults(claudeRequest)
                  content == claudeResponse'.content
              IN  /\ at' \in {"done", "replay"}
                  /\ written'.status = 200
                  /\ written'.body.kind # "error"
                  /\ written'.events = << >>
                  /\ Len(content) = 2
                  /\ content[1] = WebSearchToolResultBlock(found.items)
                  /\ content[2].type = "text"
                  /\ StartsWith(content[2].text, "Based on the search results for \"")
                  /\ Includes(content[2].text,
                              "\n\n**Summary:**\nFound " \o Decimal(Len(found.items))
                                \o " relevant sources from ")
                  /\ \A j \in 1..Len(found.items) :
                        Includes(content[2].text, Decimal(j) \o ". **")
                  /\ LastToolResultIs(claudeRequest, WebSearchResultText) =>
                        content[2].text = OneLinkFallback
                  /\ LastToolResultIs(claudeRequest, TwoLinksResultText) =>
                        content[2].text = TwoLinksFallback]_vars

\* The summarization call for the tool result with two links has failed and
\* the message with the result block and the fallback text has been returned.
C23_Witness ==
    /\ at = "done"
    /\ backendCalls # << >>
    /\ backendCalls[1].kind = "summarize"
    /\ written.status = 200
    /\ Len(claudeResponse.content) = 2
    /\ Len(claudeResponse.content[1].content) = 2
    /\ claudeResponse.content[2].text = TwoLinksFallback

\* A step in which a request that is streamed fails: the adapter throws
\* before its first call, the search provider fails, or the streaming call
\* or the reconstruction fails.
StreamedFailure ==
    \/ /\ at = "idle"
       /\ Handed'
       /\ receivedRequest'.stream
       /\ CreateMessage(claudeRequest', GetModelConfig(claudeRequest'.model), TRUE).kind
             = "error"
    \/ /\ at \in SearchWaits
       /\ claudeRequest.stream
       /\ \/ \E result \in SearchResults : SearchReturns(result) /\ ~ result.ok
          \/ SearchRefused
          \/ SearchFails
          \/ SearchTimesOut
    \/ \E message \in BackendErrors : StreamFails(message) \/ DrainFails(message)
    \/ Streaming /\ pc' = "thrown"

\* C26: once the stream headers are set the response keeps the status 200
\* and has no JSON body, and a failure of the adapter (in the search flow, of
\* the streaming call, of the reconstruction) is written as an error event,
\* the last event of the stream, after which the response is ended: in the
\* same run, or, when streamMessage has yielded the event, as the next thing
\* the handler does.
C26_StreamFailureInBand ==
    /\ [](written.stream => written.status = 200 /\ written.body = NoBody)
    /\ [][StreamedFailure =>
            /\ written'.stream
            /\ (written'.ended /\ at' = "done") \/ (~ written'.ended /\ at' = "ending")
            /\ written'.events # << >>
            /\ written'.events[Len(written'.events)].type = "error"
            /\ written'.events[Len(written'.events)].error.type = "api_error"
            /\ \A p \in 1..(Len(written'.events) - 1) : written'.events[p].type # "error"]_vars
    /\ [][at = "ending" =>
            /\ written' = [written EXCEPT !.ended = TRUE]
            /\ at' = "done"]_vars

\* The reconstruction has failed after message_start was written: the error
\* event follows it and the response is ended.
C26_Witness ==
    /\ at = "done"
    /\ written.stream
    /\ written.ended
    /\ written.status = 200
    /\ Len(written.events) = 2
    /\ written.events[1] = MessageStartEvent
    /\ written.events[2].type = "error"

\* The first n characters of a text, the whole text if it has fewer.
Prefix(text, n) == SubSeq(text, 1, IF n < Len(text) THEN n ELSE Len(text))

\* The text the first n chunks carry in delta.content, in arrival order.
RECURSIVE ContentReceived(_, _)
ContentReceived(chunks, n) ==
    IF n = 0 THEN << >>
    ELSE ContentReceived(chunks, n - 1)
         \o (IF chunks[n].has_choice THEN chunks[n].content ELSE << >>)

\* The block of index 0 is the streamed text block: it is in
\* activeContentBlocks, or its content_block_start has just been yielded.
TextBlockStreamed == 0 \in activeContentBlocks \/ pc = "text_start"

\* The k-th block of the reconstructor's events is the streamed text block.
IsStreamedText(blocks, k) ==
    blocks[k].type = "text" /\ blocks[k].index = 0 /\ TextBlockStreamed

\* The k-th block is the explanatory text block.
IsExplanatory(blocks, k) ==
    blocks[k].type = "text" /\ ~ IsStreamedText(blocks, k)

\* What the deltas of the k-th block of the reconstructor's events have to
\* spell once the block is closed: the text received for the streamed text
\* block (the chunk in hand included once its delta is yielded), the
\* characters of explanatoryText for the other text block, and for the n-th
\* tool_use block the serialized input of the n-th call with a name.
SlicedText(blocks, k) ==
    LET calls == NamedCalls(toolCallsBuffer)
        n == Len(SelectSeq(SubSeq(blocks, 1, k), IsToolUse))
    IN  CASE blocks[k].type = "tool_use" -> JsonStringify(ToolInput(calls[n].arguments))
          [] IsStreamedText(blocks, k) ->
                 ContentReceived(allChunks, IF pc = "text_delta" THEN chunkIdx
                                            ELSE chunkIdx - 1)
          [] OTHER -> ExplanatoryText(calls[1].name).text

\* The blocks the stream reconstructor has emitted: the text of a text block
\* is a string, a closed block spells its text, and the block that is being
\* sliced spells the part of it that the slices so far cover.
ReconstructorSlices ==
    LET blocks == BlocksFrom(events, 1) IN
    \A k \in 1..Len(blocks) :
        /\ IsExplanatory(blocks, k) =>
               ExplanatoryText(NamedCalls(toolCallsBuffer)[1].name).kind = "string"
        /\ blocks[k].text = IF blocks[k].closed \/ IsStreamedText(blocks, k)
                            THEN SlicedText(blocks, k)
                            ELSE Prefix(SlicedText(blocks, k), sliceAt)

\* The blocks convertClaudeToStream has emitted, likewise.
ReplaySlices ==
    at \in {"replay_block", "replay_delta", "replay_stop", "replay_end", "done"}
       /\ claudeResponse # NoMessage =>
        \A k \in 1..Len(claudeResponse.content) :
            LET p == StartOf(written.events, k - 1)
                payload == BlockPayload(claudeResponse.content[k])
            IN  p # 0 =>
                   DeltaString(written.events, p + 1, k - 1)
                       = IF at = "replay_delta" /\ replayIndex = k - 1
                         THEN Prefix(payload, sliceI)
                         ELSE payload

\* C31: slicing and pacing do not change content.  At every point of a
\* streamed response, between any two pacing delays, the input_json_delta
\* slices of every closed tool_use block concatenate to the serialized JSON
\* of the call's parsed arguments and the text_delta slices of every closed
\* text block to the block's text, and the slices of the block in progress
\* to the part of it sliced so far; this for the stream reconstructor and
\* for the replay of a message.
C31_SlicesSpellContent == ReconstructorSlices /\ ReplaySlices

\* The calls of the backend a request waits for.
ExternalCalls == {"one_shot", "stream", "summarize"}

\* The fetch of the search call alone: a request that waits for the headers
\* of the provider's response stops waiting for them, whether the provider
\* answers or not.
SearchCallEnds == (at = "search") ~> (at # "search")

\* C25: every external call (the search call, the one-shot, the streaming and
\* the summarization call of the backend) is bounded by a deadline, so a
\* request that waits for one of them eventually stops waiting for it even
\* when the callee never answers.
C25_EveryCallHasDeadline ==
    /\ (at \in SearchWaits) ~> (at \notin SearchWaits)
    /\ \A call \in ExternalCalls : (at = call) ~> (at # call)

\* ------------------------------------------------------------------------
\* Part IV : the ephemeral cache, properties
\* ------------------------------------------------------------------------

\* The last set of the key, with no write to the key since, wrote an entry
\* whose expiry time has not passed.
Live(key) == lastWrite[key].written /\ now <= lastWrite[key].expireTime

\* C27: a get of a key returns the value of the last set of the key as long
\* as the expiry time of that set has not passed, and after it has passed
\* returns undefined and leaves the map without an entry for the key; has
\* answers true, and keys lists a key, only for an entry whose expiry time
\* has not passed.
C27_ReadsHonourExpiry ==
    [][/\ \A key \in StoreKeys :
            /\ CacheGet(key) =>
                  /\ returned'.op = "get"
                  /\ Live(key) => returned'.result = lastWrite[key].value
                  /\ ~ Live(key) => /\ returned'.result = Undefined
                                    /\ CachePos(cache', key) = 0
            /\ CacheHas(key) => returned'.result = Live(key)
       /\ CacheKeys =>
            { returned'.result[j] : j \in 1..Len(returned'.result) }
                = { key \in StoreKeys : Live(key) }]_vars

\* set(k1, v1, 1000) at time 0, no write since; the get at 1500 has returned
\* undefined and the entry is gone.
C27_Witness ==
    /\ now = 1500
    /\ lastWrite["k1"] = Wrote("v1", 1000)
    /\ returned = Returned("get", "k1", Undefined)
    /\ CachePos(cache, "k1") = 0

\* C34: the sweep timer is scheduled whenever the cache holds an entry.  A
\* sweep that leaves the cache empty stops the timer, every set leaves it
\* scheduled, and no sequence of set, get, delete, has, ttl, keys, refresh,
\* clear, sweep and clock advance reaches a cache with an entry and no
\* scheduled sweep.
C34_SweepScheduledWhileNonEmpty ==
    /\ [](cache # << >> => cleanupTimer)
    /\ [][/\ (CleanupExpired /\ cache' = << >>) => ~ cleanupTimer'
          /\ (\E key \in StoreKeys, value \in StoreValues, ttl \in TTLs :
                 CacheSet(key, value, ttl)) => cleanupTimer']_vars

\* set(k1, v1, 0) at time 0 and no clear since: at 500 a sweep has removed
\* the entry, which left the cache empty, and has stopped the timer.
C34_Witness ==
    /\ cache = << >>
    /\ ~ cleanupTimer
    /\ returned = NoReturn
    /\ lastWrite["k1"] = Wrote("v1", 0)
    /\ now = 500

\* C35: the sweep has no observable effect on reads.  What a get returns for
\* a key is at every moment what the sets and deletes of the key and the
\* clock alone determine, the value of the last set while its time has not
\* passed and undefined otherwise, at whatever points sweeps have fired; and
\* a sweep removes exactly the entries whose expiry time has passed and
\* leaves every other entry, its value and its expiry time as they are.
C35_SweepIsInvisible ==
    /\ [](\A key \in StoreKeys :
            GetValue(cache, key, now)
                = IF Live(key) THEN [hit |-> TRUE, value |-> lastWrite[key].value]
                  ELSE [hit |-> FALSE])
    /\ [][CleanupExpired =>
            /\ \A key \in StoreKeys : GetValue(cache', key, now') = GetValue(cache, key, now)
            /\ \A j \in 1..Len(cache) :
                  IF now > cache[j].expireTime
                  THEN CachePos(cache', cache[j].key) = 0
                  ELSE /\ CachePos(cache', cache[j].key) # 0
                       /\ cache'[CachePos(cache', cache[j].key)] = cache[j]
            /\ \A j \in 1..Len(cache') : CachePos(cache, cache'[j].key) # 0]_vars

\* set(k1, v1, 0) and set(k2, v1, 1000) at time 0: at 500 a sweep has removed
\* the entry of k1 and left the entry of k2.
C35_Witness ==
    /\ now = 500
    /\ returned = NoReturn
    /\ cleanupTimer
    /\ lastWrite["k1"] = Wrote("v1", 0)
    /\ lastWrite["k2"] = Wrote("v1", 1000)
    /\ cache = << CacheItem("k2", "v1", 1000) >>

\* The last result of a list that has the link.
LastWithLink(search_result, link) ==
    search_result[CHOOSE j \in 1..Len(search_result) :
                     /\ search_result[j].link = link
                     /\ \A k \in (j + 1)..Len(search_result) : search_result[k].link # link]

\* C32: when the search of the initial phase succeeds, the cache holds for
\* the link of every result the provider returned an entry with that result,
\* the later one when two results share the link, that expires one default
\* time to live later; and from then on, whatever requests, sweeps and clock
\* advances follow, a get of the link returns the result last stored under
\* it as long as that time has not passed.
C32_ResultsCachedByLink ==
    /\ [][\A result \in ProviderAnswers :
            (SearchReturns(result) /\ result.ok) =>
                \A j \in 1..Len(result.search_result) :
                    LET link == result.search_result[j].link
                        p == CachePos(cache', link)
                    IN  /\ p # 0
                        /\ cache'[p].value = LastWithLink(result.search_result, link)
                        /\ cache'[p].expireTime = now + DEFAULT_TTL]_vars
    /\ [](\A link \in PageLinks :
            (link \in DOMAIN lastWrite /\ Live(link)) =>
                GetValue(cache, link, now) = [hit |-> TRUE, value |-> lastWrite[link].value])

\* The provider has returned two results for http://h/x half an hour after
\* the start, and a get of the link returns the second.
C32_Witness ==
    /\ at = "done"
    /\ Len(claudeResponse.content) = 3
    /\ claudeResponse.content[3].type = "web_search_tool_result"
    /\ Len(claudeResponse.content[3].content) = 2
    /\ claudeResponse.content[3].content[1].result = PageSun
    /\ claudeResponse.content[3].content[2].result = PageRain
    /\ now = DEFAULT_TTL \div 2
    /\ GetValue(cache, "http://h/x", now) = [hit |-> TRUE, value |-> PageRain]

\* The links of the tool result of ToolResultRequest, with their titles.
ToolResultLinks == << [title |-> "a", url |-> "http://h/x"], [title |-> "c", url |-> "http://h/y"] >>

\* A search has stored a result under the link and its time has not passed.
Cached(link) == link \in DOMAIN lastWrite /\ Live(link)

\* The entry of the summarization prompt that is due for the j-th link of the
\* tool result: title and content of the cached result on a hit, the title
\* of the entry itself and no content otherwise.
DueEntry(j) ==
    LET entry == ToolResultLinks[j]
        page == lastWrite[entry.url].value
    IN  Decimal(j) \o ". **"
        \o (IF Cached(entry.url) THEN page.title ELSE entry.title)
        \o "**\n   URL: " \o entry.url \o "\n   Content: "
        \o (IF Cached(entry.url) /\ "content" \in DOMAIN page THEN page.content
            ELSE "No content available")

\* C33: the tool result phase completes whether each of its links is a cache
\* hit, was never cached, or was cached by a search and has expired since.
\* The prompt of the summarization call takes title and content from the
\* cache on a hit and the entry's own title, with no content, on a missing or
\* expired entry, and the request is answered with status 200 by a message
\* of one web_search_tool_result block with the entries and one text block.
C33_MissIsNotAnError ==
    /\ [][(at = "idle" /\ receivedRequest' = ToolResultRequest) =>
            /\ at' = "summarize"
            /\ backendCalls'[1].prompt
                  = "Based on the following search results for \"Web search results for query: w\", please provide a comprehensive and well-structured response:\n\n"
                    \o DueEntry(1) \o "\n\n" \o DueEntry(2)
                    \o "\n\nPlease analyze and synthesize the information to provide a helpful answer to the query."]_vars
    /\ []((at = "done" /\ receivedRequest = ToolResultRequest) =>
            /\ written.status = 200
            /\ written.body.kind = "message"
            /\ Len(written.body.message.content) = 2
            /\ written.body.message.content[1].type = "web_search_tool_result"
            /\ Len(written.body.message.content[1].content) = 2
            /\ written.body.message.content[2].type = "text"
            /\ written.body.message.content[2].text # "")

\* The tool result phase is over: the result a search had stored under
\* http://h/x has expired and is gone from the cache, and http://h/y was
\* never cached.
C33_Witness ==
    /\ at = "done"
    /\ receivedRequest = ToolResultRequest
    /\ written.status = 200
    /\ "http://h/x" \in DOMAIN lastWrite
    /\ now > lastWrite["http://h/x"].expireTime
    /\ CachePos(cache, "http://h/x") = 0
    /\ "http://h/y" \notin DOMAIN lastWrite
    /\ cleanupTimer

\* The results the search of the conversation of ToolResultRequest returned:
\* the pages its tool result names, http://h/x as "a" and http://h/y as "c".
\* PageRain is a result of a search made for another conversation.
OwnPages == { PageSun, PageBare }

\* The cache without the entries that hold a result of another conversation.
OwnEntries(entries) == SelectSeq(entries, LAMBDA e : e.value \in OwnPages)

\* C40: the answer of the tool result phase for one conversation does not
\* depend on the searches made for other conversations: the summarization
\* prompt it builds is the prompt it builds when the results cached for
\* other conversations are not in the cache, and its tool result block
\* lists the entries of its own tool result.
C40_OtherSearchesDoNotShow ==
    /\ [][(at = "idle" /\ receivedRequest' = ToolResultRequest) =>
            backendCalls'[1].prompt
                = SummaryPrompt("Web search results for query: w",
                                ToolResultSearchResults(ToolResultRequest).items, TRUE,
                                OwnEntries(cache), now)]_vars
    /\ []((at = "done" /\ receivedRequest = ToolResultRequest) =>
            written.body.message.content[1]
                = WebSearchToolResultBlock(ToolResultSearchResults(ToolResultRequest).items))

\* ------------------------------------------------------------------------
\* Part V : parseSearchResult, properties
\* ------------------------------------------------------------------------

\* The number of occurrences of a character in text[p .. q].
RECURSIVE Count(_, _, _, _)
Count(text, ch, p, q) ==
    IF p > q THEN 0
    ELSE (IF SubSeq(text, p, p) = ch THEN 1 ELSE 0) + Count(text, ch, p + 1, q)

\* The text has an opening bracket that matches its last closing bracket.
HasMatchingBracket(text) ==
    LET last == LastIndexOf(text, "]") IN
    /\ last # 0
    /\ \E i \in 1..last :
          /\ SubSeq(text, i, i) = "["
          /\ Count(text, "[", i, last) = Count(text, "]", i, last)

\* C24: called on a query followed by the serialized array of {title, url}
\* objects, parseSearchResult returns the trimmed query as queryPart and the
\* array as linksArray; called on a text with no closing bracket, or with no
\* opening bracket matching the last closing one, it returns null.
C24_ParseRoundTrip ==
    parseCall.called =>
        /\ parseCall.has_array =>
              parseCall.result = [kind |-> "value",
                                  queryPart |-> Trim(parseCall.query),
                                  linksArray |-> parseCall.links]
        /\ ~ HasMatchingBracket(parseCall.text) => parseCall.result.kind = "null"

====
